---- MODULE Spec2Model ----
(***************************************************************************)
(* Model of the Windows text-selection hook (src/src/windows).             *)
(*                                                                         *)
(* Text is a sequence of code units (numbers): UTF-16 units for wide       *)
(* strings, bytes for UTF-8 strings.                                       *)
(***************************************************************************)
EXTENDS Integers, Sequences, FiniteSets, TLC

VARIABLES
    \* session configuration (members of SelectionHook)
    is_enabled_clipboard,
    is_selection_passive_mode,
    clipboard_filter_mode,
    clipboard_filter_list,
    global_filter_mode,
    global_filter_list,
    ftl_exclude_clipboard_cursor_detect,
    ftl_include_clipboard_delay_read,
    \* the arrays last handed to setGlobalFilterMode / setClipboardMode
    rawGlobalArray,
    rawClipboardArray,
    \* result of the last filter evaluation made for a program name
    probe,
    \* GetTickCount() and the statics of ShouldProcessGetSelection
    now,
    sps_lastResult,
    sps_lastCheckTime,
    \* statics of ProcessMouseEvent
    lastLastMouseUpPos,
    lastMouseUpPos,
    lastMouseUpTime,
    lastMouseDownPos,
    lastMouseDownTime,
    isLastValidClick,
    lastWindowHandler,
    lastWindowRect,
    \* members shared by the execution contexts
    is_processing,
    is_triggered_by_user,
    mouse_up_cursor,
    uia_control_type,
    clipboard_sequence,
    \* the system clipboard: its text and its sequence number
    clipboard,
    clipSeq,
    \* per execution context ("delivery": ProcessMouseEvent, "caller":
    \* GetCurrentSelection): position, and the locals of the calls in progress
    pc,
    sel,
    ret,
    invoked,
    clip,
    window,
    entered,
    \* what the last mouse event observed and produced; what the last
    \* getCurrentSelection call returned
    lastEvt,
    callerResult,
    \* number of mouse events processed / getCurrentSelection calls made
    nEvents,
    nCalls,
    \* the session: flags, delivery channels (thread-safe functions), the handle
    \* and id of the hook thread
    running,
    mouse_keyboard_running,
    tsfn,
    mouse_tsfn,
    keyboard_tsfn,
    mouse_keyboard_hook_thread,
    mouse_keyboard_thread_id,
    \* the hook threads created so far, by thread id
    hookThreads,
    \* position of the JavaScript thread inside Stop or the destructor
    jsPc,
    \* the latest call of the control surface and the error it threw
    lastCall,
    \* what the teardown in progress has done so far
    teardown,
    \* the latest hook callback: the event, whether it was posted, the channel
    \* and its state then
    lastPost,
    \* mouse-move events are reported
    is_enabled_mouse_move_event,
    \* the records queued in the three delivery channels, oldest first
    tsfnQueue,
    mouseQueue,
    keyboardQueue,
    \* number of inputs the hooks have observed; each input is numbered
    observed,
    \* what the consumer callback received last
    delivered

cfgVars == <<is_enabled_clipboard, is_selection_passive_mode, clipboard_filter_mode,
             clipboard_filter_list, global_filter_mode, global_filter_list,
             ftl_exclude_clipboard_cursor_detect, ftl_include_clipboard_delay_read,
             rawGlobalArray, rawClipboardArray>>

timeVars == <<now, sps_lastResult, sps_lastCheckTime>>

gestureVars == <<lastLastMouseUpPos, lastMouseUpPos, lastMouseUpTime, lastMouseDownPos,
                 lastMouseDownTime, isLastValidClick, lastWindowHandler, lastWindowRect>>

sharedVars == <<is_processing, is_triggered_by_user, mouse_up_cursor, uia_control_type,
                clipboard_sequence>>

clipboardVars == <<clipboard, clipSeq>>

ctxVars == <<pc, sel, ret, invoked, clip, window, entered>>

outVars == <<lastEvt, callerResult>>

countVars == <<nEvents, nCalls>>

engineVars == <<timeVars, gestureVars, sharedVars, clipboardVars, ctxVars, outVars, countVars>>

sessionVars == <<running, mouse_keyboard_running, tsfn, mouse_tsfn, keyboard_tsfn,
                 mouse_keyboard_hook_thread, mouse_keyboard_thread_id, hookThreads,
                 jsPc, lastCall, teardown, lastPost>>

channelVars == <<is_enabled_mouse_move_event, tsfnQueue, mouseQueue, keyboardQueue,
                 observed, delivered>>

vars == <<cfgVars, probe, engineVars, sessionVars, channelVars>>

-----------------------------------------------------------------------------
(* enum FilterMode *)
FilterMode_Default == 0
FilterMode_IncludeList == 1
FilterMode_ExcludeList == 2
FilterModes == {FilterMode_Default, FilterMode_IncludeList, FilterMode_ExcludeList}

(* enum FineTunedListType *)
ExcludeClipboardCursorDetect == 0
IncludeClipboardDelayRead == 1

-----------------------------------------------------------------------------
(* Strings used as inputs *)
S_empty == <<>>
S_notepad == <<110, 111, 116, 101, 112, 97, 100>>                          \* "notepad"
S_NOTEPAD == <<78, 79, 84, 69, 80, 65, 68>>                                \* "NOTEPAD"
S_acrobat == <<97, 99, 114, 111, 98, 97, 116>>                             \* "acrobat"
S_zhong == <<20013>>                                                       \* U+4E2D
P_Notepad_exe == <<78, 111, 116, 101, 112, 97, 100, 46, 101, 120, 101>>    \* "Notepad.exe"
P_notepad_exe == <<110, 111, 116, 101, 112, 97, 100, 46, 101, 120, 101>>   \* "notepad.exe"
P_AcroRd32_exe == <<65, 99, 114, 111, 82, 100, 51, 50, 46, 101, 120, 101>> \* "AcroRd32.exe"
P_Acrobat_exe == <<65, 99, 114, 111, 98, 97, 116, 46, 101, 120, 101>>      \* "Acrobat.exe"
P_zhong_exe == <<20013, 46, 101, 120, 101>>                                \* U+4E2D ".exe"

(* A JavaScript array element: a string, or a value that is not a string *)
JsStr(s) == [isString |-> TRUE, s |-> s]
JsNum == [isString |-> FALSE, s |-> <<>>]

-----------------------------------------------------------------------------
(* String helpers *)

\* towlower in the C locale: only A-Z change
ToLowerWide(c) == IF c >= 65 /\ c <= 90 THEN c + 32 ELSE c

\* std::tolower on an unsigned char in the C locale
ToLowerByte(b) == IF b >= 65 /\ b <= 90 THEN b + 32 ELSE b

\* UTF-8 bytes of one UTF-16 code unit of the basic plane (no surrogates)
Utf8OfUnit(c) ==
    IF c < 128 THEN <<c>>
    ELSE IF c < 2048 THEN <<192 + (c \div 64), 128 + (c % 64)>>
    ELSE <<224 + (c \div 4096), 128 + ((c \div 64) % 64), 128 + (c % 64)>>

RECURSIVE ConcatUtf8(_)
ConcatUtf8(w) == IF w = <<>> THEN <<>> ELSE Utf8OfUnit(Head(w)) \o ConcatUtf8(Tail(w))

\* StringPool::WideToUtf8
WideToUtf8(wstr) == IF Len(wstr) = 0 THEN <<>> ELSE ConcatUtf8(wstr)

\* Napi::String::Utf8Value
Utf8Value(jsString) == ConcatUtf8(jsString)

npos == -1

\* std::string::find(needle): first position (0-based) where needle occurs, else npos
RECURSIVE FindFrom(_, _, _)
FindFrom(hay, needle, pos) ==
    IF pos + Len(needle) > Len(hay) THEN npos
    ELSE IF \A k \in 1..Len(needle) : hay[pos + k] = needle[k] THEN pos
    ELSE FindFrom(hay, needle, pos + 1)

Find(hay, needle) == FindFrom(hay, needle, 0)

-----------------------------------------------------------------------------
(* Filter lists *)

\* SelectionHook::ProcessStringArrayToList with the lower-casing left out
RECURSIVE ProcessStringArrayToList_NoLower(_)
ProcessStringArrayToList_NoLower(array) ==
    IF array = <<>> THEN <<>>
    ELSE LET value == Head(array)
             rest == ProcessStringArrayToList_NoLower(Tail(array))
         IN IF value.isString THEN <<Utf8Value(value.s)>> \o rest ELSE rest

\* SelectionHook::ProcessStringArrayToList: the new contents of targetList
RECURSIVE ProcessStringArrayToList(_)
ProcessStringArrayToList(array) ==
    IF array = <<>> THEN <<>>
    ELSE LET value == Head(array)
             rest == ProcessStringArrayToList(Tail(array))
         IN IF value.isString
            THEN LET programName == Utf8Value(value.s)
                     lowered == [i \in 1..Len(programName) |-> ToLowerByte(programName[i])]
                 IN <<lowered>> \o rest
            ELSE rest

\* SelectionHook::IsInFilterList matching a whole name instead of a substring
IsInFilterList_WholeName(programName, filterList) ==
    IF filterList = <<>> THEN FALSE
    ELSE LET lowerProgramName == [i \in 1..Len(programName) |-> ToLowerWide(programName[i])]
         IN \E i \in 1..Len(filterList) : WideToUtf8(lowerProgramName) = filterList[i]

\* SelectionHook::IsInFilterList
IsInFilterList(programName, filterList) ==
    IF filterList = <<>> THEN FALSE
    ELSE LET lowerProgramName == [i \in 1..Len(programName) |-> ToLowerWide(programName[i])]
             utf8ProgramName == WideToUtf8(lowerProgramName)
         IN \E i \in 1..Len(filterList) : Find(utf8ProgramName, filterList[i]) # npos

\* the global filter of GetSelectedText rejecting every unresolved program
GlobalFilterAdmits_UnresolvedRejected(resolved, programName) ==
    IF ~resolved THEN FALSE
    ELSE IF global_filter_mode # FilterMode_Default
         THEN LET isIn == IsInFilterList(programName, global_filter_list)
              IN ~((global_filter_mode = FilterMode_IncludeList /\ ~isIn) \/
                   (global_filter_mode = FilterMode_ExcludeList /\ isIn))
         ELSE TRUE

\* SelectionHook::GetSelectedText, the global filter: TRUE when the call goes on
\* to the strategies. resolved is the result of GetProgramNameFromHwnd.
GlobalFilterAdmits(resolved, programName) ==
    IF ~resolved
    THEN global_filter_mode # FilterMode_IncludeList
    ELSE IF global_filter_mode # FilterMode_Default
         THEN LET isIn == IsInFilterList(programName, global_filter_list)
              IN ~((global_filter_mode = FilterMode_IncludeList /\ ~isIn) \/
                   (global_filter_mode = FilterMode_ExcludeList /\ isIn))
         ELSE TRUE

\* SelectionHook::ShouldProcessViaClipboard, the switch on clipboard_filter_mode
ClipboardFilterStage(programName) ==
    CASE clipboard_filter_mode = FilterMode_Default -> TRUE
      [] clipboard_filter_mode = FilterMode_IncludeList ->
            IsInFilterList(programName, clipboard_filter_list)
      [] clipboard_filter_mode = FilterMode_ExcludeList ->
            ~IsInFilterList(programName, clipboard_filter_list)
      [] OTHER -> FALSE

-----------------------------------------------------------------------------
(* Control surface *)

SetClipboardMode(mode, array) ==
    /\ clipboard_filter_mode' = mode
    /\ clipboard_filter_list' = ProcessStringArrayToList(array)
    /\ rawClipboardArray' = array
    /\ UNCHANGED <<is_enabled_clipboard, is_selection_passive_mode, global_filter_mode,
                   global_filter_list, ftl_exclude_clipboard_cursor_detect,
                   ftl_include_clipboard_delay_read, rawGlobalArray>>

SetGlobalFilterMode(mode, array) ==
    /\ global_filter_mode' = mode
    /\ global_filter_list' = ProcessStringArrayToList(array)
    /\ rawGlobalArray' = array
    /\ UNCHANGED <<is_enabled_clipboard, is_selection_passive_mode, clipboard_filter_mode,
                   clipboard_filter_list, ftl_exclude_clipboard_cursor_detect,
                   ftl_include_clipboard_delay_read, rawClipboardArray>>

SetFineTunedList(listType, array) ==
    /\ listType \in {ExcludeClipboardCursorDetect, IncludeClipboardDelayRead}
    /\ IF listType = ExcludeClipboardCursorDetect
       THEN /\ ftl_exclude_clipboard_cursor_detect' = ProcessStringArrayToList(array)
            /\ UNCHANGED ftl_include_clipboard_delay_read
       ELSE /\ ftl_include_clipboard_delay_read' = ProcessStringArrayToList(array)
            /\ UNCHANGED ftl_exclude_clipboard_cursor_detect
    /\ UNCHANGED <<is_enabled_clipboard, is_selection_passive_mode, clipboard_filter_mode,
                   clipboard_filter_list, global_filter_mode, global_filter_list,
                   rawGlobalArray, rawClipboardArray>>

EnableClipboard ==
    /\ is_enabled_clipboard' = TRUE
    /\ UNCHANGED <<is_selection_passive_mode, clipboard_filter_mode, clipboard_filter_list,
                   global_filter_mode, global_filter_list,
                   ftl_exclude_clipboard_cursor_detect, ftl_include_clipboard_delay_read,
                   rawGlobalArray, rawClipboardArray>>

DisableClipboard ==
    /\ is_enabled_clipboard' = FALSE
    /\ UNCHANGED <<is_selection_passive_mode, clipboard_filter_mode, clipboard_filter_list,
                   global_filter_mode, global_filter_list,
                   ftl_exclude_clipboard_cursor_detect, ftl_include_clipboard_delay_read,
                   rawGlobalArray, rawClipboardArray>>

SetSelectionPassiveMode(value) ==
    /\ is_selection_passive_mode' = value
    /\ UNCHANGED <<is_enabled_clipboard, clipboard_filter_mode, clipboard_filter_list,
                   global_filter_mode, global_filter_list,
                   ftl_exclude_clipboard_cursor_detect, ftl_include_clipboard_delay_read,
                   rawGlobalArray, rawClipboardArray>>

\* The members as the constructor leaves them
InitCfg ==
    /\ is_enabled_clipboard = TRUE
    /\ is_selection_passive_mode = FALSE
    /\ clipboard_filter_mode = FilterMode_Default
    /\ clipboard_filter_list = <<>>
    /\ global_filter_mode = FilterMode_Default
    /\ global_filter_list = <<>>
    /\ ftl_exclude_clipboard_cursor_detect = <<>>
    /\ ftl_include_clipboard_delay_read = <<>>
    /\ rawGlobalArray = <<>>
    /\ rawClipboardArray = <<>>

-----------------------------------------------------------------------------
(* Filter evaluation for one program name, as GetSelectedText and            *)
(* ShouldProcessViaClipboard make it                                         *)

NoProbe == [done |-> FALSE]

EvaluateFilters(resolved, programName) ==
    /\ probe' = [done |-> TRUE,
                 resolved |-> resolved,
                 programName |-> programName,
                 isInGlobal |-> IsInFilterList(programName, global_filter_list),
                 admitted |-> GlobalFilterAdmits(resolved, programName),
                 clipboardStage |-> ClipboardFilterStage(programName)]
    /\ UNCHANGED <<cfgVars, sessionVars, channelVars, engineVars>>

FilterArrays ==
    { <<>>,
      <<JsStr(S_notepad)>>,
      <<JsStr(S_NOTEPAD)>>,
      <<JsStr(S_acrobat)>>,
      <<JsNum, JsStr(S_zhong)>>,
      <<JsStr(S_empty)>> }

ProgramNames ==
    { P_Notepad_exe, P_notepad_exe, P_AcroRd32_exe, P_Acrobat_exe, P_zhong_exe, S_empty }

-----------------------------------------------------------------------------
(* Constants of the engine *)

MIN_DRAG_DISTANCE == 8
MAX_DRAG_TIME_MS == 8000
DOUBLE_CLICK_MAX_DISTANCE == 3
DOUBLE_CLICK_TIME_MS == 500
\* ShouldProcessGetSelection keeps its answer for 10 seconds
SPS_CACHE_MS == 10000
\* HasWindowMoved tolerates 2 pixels
WINDOW_MOVE_TOLERANCE == 2
\* queue sizes handed to ThreadSafeFunction::New (0: no limit)
SELECTION_QUEUE_SIZE == 0
DEFAULT_MOUSE_EVENT_QUEUE_SIZE == 512
DEFAULT_KEYBOARD_EVENT_QUEUE_SIZE == 128
\* Bounds of the model
MaxEvents == 2
MaxCalls == 1
MaxGestureEvents == 2
MaxClickEvents == 4
StartTick == 20000

NULL == 0
HwndNotRead == -1

Point(x, y) == [x |-> x, y |-> y]
ZeroPoint == Point(0, 0)
Rect(l, t, r, b) == [left |-> l, top |-> t, right |-> r, bottom |-> b]
ZeroRect == Rect(0, 0, 0, 0)
RectNotRead == Rect(-1, -1, -1, -1)
Keys(shift, ctrl, alt) == [read |-> TRUE, shift |-> shift, ctrl |-> ctrl, alt |-> alt]
KeysNotRead == [read |-> FALSE, shift |-> FALSE, ctrl |-> FALSE, alt |-> FALSE]

Contexts == {"delivery", "caller"}

\* Texts: a selection, a whitespace-only text, the text the clipboard holds at first
T_sel == <<72, 105>>
T_blank == <<32, 10>>
T_old == <<79, 108, 100>>

Abs(n) == IF n < 0 THEN -n ELSE n

\* a - b on DWORDs, for tick counts below 2^31: when a < b the difference wraps
\* around to 2^32 - (b - a), which is above every limit it is compared with
DWordSubExceeds(a, b, limit) == IF a >= b THEN a - b > limit ELSE TRUE

\* sqrt(dx * dx + dy * dy) >= d, for whole numbers
DistanceAtLeast(p, q, d) == (p.x - q.x) * (p.x - q.x) + (p.y - q.y) * (p.y - q.y) >= d * d

\* sqrt(dx * dx + dy * dy) <= d, for whole numbers
DistanceAtMost(p, q, d) == (p.x - q.x) * (p.x - q.x) + (p.y - q.y) * (p.y - q.y) <= d * d

\* IsTrimmedEmpty (utils.cc): nothing but " \t\n\r"
IsTrimmedEmpty(text) == \A i \in 1..Len(text) : text[i] \in {32, 9, 10, 13}

\* HasWindowMoved (utils.cc) with the tolerance applied to the left edge only
HasWindowMoved_LeftOnly(currentWindowRect, lastRect) ==
    Abs(currentWindowRect.left - lastRect.left) > WINDOW_MOVE_TOLERANCE

\* HasWindowMoved (utils.cc)
HasWindowMoved(currentWindowRect, lastRect) ==
    \/ Abs(currentWindowRect.left - lastRect.left) > WINDOW_MOVE_TOLERANCE
    \/ Abs(currentWindowRect.top - lastRect.top) > WINDOW_MOVE_TOLERANCE
    \/ Abs(currentWindowRect.right - lastRect.right) > WINDOW_MOVE_TOLERANCE
    \/ Abs(currentWindowRect.bottom - lastRect.bottom) > WINDOW_MOVE_TOLERANCE

\* TextSelectionInfo as its constructor and clear() leave it; programName is kept
\* by clear()
NewSelectionInfo ==
    [text |-> <<>>, programName |-> <<>>, method |-> "None", posLevel |-> "None",
     startTop |-> ZeroPoint, startBottom |-> ZeroPoint,
     endTop |-> ZeroPoint, endBottom |-> ZeroPoint,
     mousePosStart |-> ZeroPoint, mousePosEnd |-> ZeroPoint]

ClearedSelectionInfo(info) == [NewSelectionInfo EXCEPT !.programName = info.programName]

\* The bounding rectangles of a text range are doubles; they are held here
\* in units of half a pixel, UnitsPerPixel to the pixel.
UnitsPerPixel == 2

\* one rectangle of the array: left, top, width, height
Bounds(x, y, width, height) == [x |-> x, y |-> y, width |-> width, height |-> height]

\* static_cast<LONG> of a double: the fraction is dropped, towards zero
ToLong(units) ==
    IF units >= 0 THEN units \div UnitsPerPixel ELSE -((-units) \div UnitsPerPixel)

\* the test with the height limit taken as inclusive
ValidRect_Inclusive(r) ==
    r.width > 1 * UnitsPerPixel /\ r.height <= 100 * UnitsPerPixel

\* if (width > 1.0 && height < 100.0)
ValidRect(r) ==
    r.width > 1 * UnitsPerPixel /\ r.height < 100 * UnitsPerPixel

\* what SetTextRangeCoordinates writes from the first and the last valid rectangle
WithRangeCoordinates(info, first, last) ==
    [info EXCEPT
       !.startTop = Point(ToLong(first.x), ToLong(first.y)),
       !.startBottom = Point(ToLong(first.x), ToLong(first.y + first.height)),
       !.endBottom = Point(ToLong(last.x + last.width), ToLong(last.y + last.height)),
       !.endTop = Point(ToLong(last.x + last.width), ToLong(last.y)),
       !.posLevel = "Full"]

\* SelectionHook::SetTextRangeCoordinates; range.bounds says whether
\* GetBoundingRectangles answered with an array, range.rects is the array
SetTextRangeCoordinates(range, info) ==
    LET valid == {i \in 1..Len(range.rects) : ValidRect(range.rects[i])}
        firstValidRectIndex == CHOOSE i \in valid : \A j \in valid : i <= j
        lastValidRectIndex == CHOOSE i \in valid : \A j \in valid : i >= j
    IN IF range.bounds /\ valid # {}
       THEN [result |-> TRUE,
             info |-> WithRangeCoordinates(info, range.rects[firstValidRectIndex],
                                           range.rects[lastValidRectIndex])]
       ELSE [result |-> FALSE, info |-> info]

\* approach 1 of GetTextViaUIAutomation: the ranges of GetSelection, in
\* order, until one has text and coordinates
RECURSIVE SelectionRanges(_, _)
SelectionRanges(ranges, info) ==
    IF ranges = <<>> THEN [result |-> FALSE, info |-> info]
    ELSE LET withText == [info EXCEPT !.text = Head(ranges).text]
             coords == IF withText.text # <<>>
                       THEN SetTextRangeCoordinates(Head(ranges), withText)
                       ELSE [result |-> FALSE, info |-> withText]
         IN IF coords.result THEN coords
            ELSE SelectionRanges(Tail(ranges), coords.info)

\* approach 2: the document range, read as it is and, without a selection,
\* once more after ExpandToEnclosingUnit
RECURSIVE DocumentRange(_, _)
DocumentRange(readings, info) ==
    IF readings = <<>> THEN [result |-> FALSE, info |-> info]
    ELSE LET taken == Head(readings).active /\ Head(readings).text # <<>>
             withText == IF taken THEN [info EXCEPT !.text = Head(readings).text]
                         ELSE info
             coords == IF taken THEN SetTextRangeCoordinates(Head(readings), withText)
                       ELSE [result |-> FALSE, info |-> withText]
         IN IF coords.result THEN coords
            ELSE DocumentRange(Tail(readings), coords.info)

\* the body of GetTextViaUIAutomation for the answers u of UI Automation:
\* the text pattern's selection, then its document range, then the legacy
\* accessible pattern, whose text comes without coordinates
UIAutomationText(u, info) ==
    IF ~u.focused THEN [result |-> FALSE, info |-> info]
    ELSE LET selection == IF u.pattern THEN SelectionRanges(u.selection, info)
                          ELSE [result |-> FALSE, info |-> info]
             document == IF u.pattern /\ ~selection.result
                         THEN DocumentRange(u.document, selection.info)
                         ELSE selection
         IN IF ~document.result /\ u.legacy.read
            THEN [result |-> u.legacy.text # <<>>,
                  info |-> [document.info EXCEPT !.text = u.legacy.text]]
            ELSE document

\* Locals of GetTextViaClipboard, and what the call did to the clipboard
\* what GetAsyncKeyState answers for VK_CONTROL, 'C', 'X' and 'V'
AsyncKeys(ctrl, c, x, v) == [ctrl |-> ctrl, c |-> c, x |-> x, v |-> v]

NoKeyDown == AsyncKeys(FALSE, FALSE, FALSE, FALSE)

\* checkCount and pressed (isCtrlPressed, isCPressed, isXPressed, isVPressed) are
\* the locals of the key check; exit names the return statement that was taken;
\* insertTimedOut: the wait after Ctrl+Insert ended with hasNewContent false
NewClip ==
    [existingContent |-> <<>>, isInDelayReadList |-> FALSE, snapshot |-> FALSE,
     sent |-> <<>>, sentCopy |-> FALSE, returned |-> FALSE, atReturn |-> <<>>,
     checkCount |-> 0, pressed |-> NoKeyDown, exit |-> "none",
     insertTimedOut |-> FALSE]

\* what GetProgramNameFromHwnd answers for the window handed to GetSelectedText
NoWindow == [resolved |-> FALSE, programName |-> <<>>]

\* a record the consumer callback receives: its type, and the number of the
\* input it reports (for a text selection: of the mouse-up that caused it)
Received(type, seq) == [type |-> type, seq |-> seq]

\* what the last mouse event observed and produced.  downPos, prevUpPos,
\* prevUpTime and prevValid are the statics as the classifier read them;
\* upKind tells what the latest primary-button-up that reached the classifier
\* was ("none": there was none yet, "passive": processed in passive mode,
\* "Drag": classified as a drag, "press": any other), and prevUpKind is that
\* answer for the one before; strategyPosLevel is the
\* position level GetSelectedText left in the result; seq is the number of the
\* input (0 when the event did not come through the mouse channel); down is
\* the latest primary-button-down that was recorded
\* no primary-button-down has reached case WM_LBUTTONDOWN yet.  For the latest
\* one that did: the number of the input, and the clipboard sequence number it
\* stored
NoDown == [recorded |-> FALSE, seq |-> 0, clipboard_sequence |-> 0]

NoEvent ==
    [event |-> "none", pos |-> ZeroPoint, processed |-> FALSE, passive |-> FALSE,
     detectionType |-> "None", hwnd |-> HwndNotRead, rect |-> RectNotRead,
     keys |-> KeysNotRead, extraction |-> FALSE, selection |-> FALSE,
     emitted |-> FALSE, downPos |-> ZeroPoint, prevUpPos |-> ZeroPoint,
     prevUpTime |-> 0, prevValid |-> FALSE, upKind |-> "none",
     prevUpKind |-> "none", strategyPosLevel |-> "None", seq |-> 0,
     down |-> NoDown]

InitEngine ==
    /\ now = StartTick
    /\ sps_lastResult = TRUE
    /\ sps_lastCheckTime = 0
    /\ lastLastMouseUpPos = ZeroPoint
    /\ lastMouseUpPos = ZeroPoint
    /\ lastMouseUpTime = 0
    /\ lastMouseDownPos = ZeroPoint
    /\ lastMouseDownTime = 0
    /\ isLastValidClick = FALSE
    /\ lastWindowHandler = NULL
    /\ lastWindowRect = ZeroRect
    /\ is_processing = FALSE
    /\ is_triggered_by_user = FALSE
    /\ mouse_up_cursor = "NULL"
    /\ uia_control_type = "Window"
    /\ clipboard_sequence = 0
    /\ clipboard = T_old
    /\ clipSeq = 1
    /\ pc = [c \in Contexts |-> "idle"]
    /\ sel = [c \in Contexts |-> NewSelectionInfo]
    /\ ret = [c \in Contexts |-> FALSE]
    /\ invoked = [c \in Contexts |-> <<>>]
    /\ window = [c \in Contexts |-> NoWindow]
    /\ entered = [c \in Contexts |-> FALSE]
    /\ clip = [c \in Contexts |-> NewClip]
    /\ lastEvt = NoEvent
    /\ callerResult = "none"
    /\ nEvents = 0
    /\ nCalls = 0
    /\ is_enabled_mouse_move_event = FALSE
    /\ tsfnQueue = <<>>
    /\ mouseQueue = <<>>
    /\ keyboardQueue = <<>>
    /\ observed = 0
    /\ delivered = Received("none", 0)

-----------------------------------------------------------------------------
(* ShouldProcessGetSelection at tick t; userState is what                     *)
(* SHQueryUserNotificationState answers (TRUE: selection may be read, also    *)
(* when the query fails)                                                      *)

SPS_Cached(t) == t - sps_lastCheckTime < SPS_CACHE_MS

\* the check answering that processing is allowed whatever the state
ShouldProcessGetSelection_Always(t, userState) == TRUE

ShouldProcessGetSelection(t, userState) == IF SPS_Cached(t) THEN sps_lastResult ELSE userState

SPS_Update(t, userState) ==
    IF SPS_Cached(t)
    THEN UNCHANGED <<sps_lastResult, sps_lastCheckTime>>
    ELSE sps_lastResult' = userState /\ sps_lastCheckTime' = t

-----------------------------------------------------------------------------
(* ProcessMouseEvent: the gesture classifier *)

\* WM_LBUTTONUP with the shift-click check made an else-branch of the chain
DetectionType_ShiftInChain(currentPos, currentTime, hwnd, currentWindowRect, keys) ==
    LET isCurrentValidClick == ~DWordSubExceeds(currentTime, lastMouseDownTime, DOUBLE_CLICK_TIME_MS)
    IN IF DWordSubExceeds(currentTime, lastMouseDownTime, MAX_DRAG_TIME_MS) THEN "None"
       ELSE IF DistanceAtLeast(currentPos, lastMouseDownPos, MIN_DRAG_DISTANCE)
            THEN IF hwnd # NULL /\ hwnd = lastWindowHandler
                    /\ ~HasWindowMoved(currentWindowRect, lastWindowRect)
                 THEN "Drag" ELSE "None"
       ELSE IF isLastValidClick /\ isCurrentValidClick
               /\ DistanceAtMost(currentPos, lastMouseDownPos, DOUBLE_CLICK_MAX_DISTANCE)
               /\ DistanceAtMost(currentPos, lastMouseUpPos, DOUBLE_CLICK_MAX_DISTANCE)
               /\ ~DWordSubExceeds(lastMouseDownTime, lastMouseUpTime, DOUBLE_CLICK_TIME_MS)
            THEN "DoubleClick"
       ELSE IF keys.shift /\ ~keys.ctrl /\ ~keys.alt THEN "ShiftClick" ELSE "None"

\* the drag branch is entered: GetWindowUnderMouse is called
DragBranch(currentPos, currentTime) ==
    /\ ~DWordSubExceeds(currentTime, lastMouseDownTime, MAX_DRAG_TIME_MS)
    /\ DistanceAtLeast(currentPos, lastMouseDownPos, MIN_DRAG_DISTANCE)

\* the chain with the double-click branch not asking for a valid previous click
DetectionInChain_NoLastValid(currentPos, currentTime, hwnd, currentWindowRect) ==
    LET isCurrentValidClick == ~DWordSubExceeds(currentTime, lastMouseDownTime, DOUBLE_CLICK_TIME_MS)
    IN IF DWordSubExceeds(currentTime, lastMouseDownTime, MAX_DRAG_TIME_MS) THEN "None"
       ELSE IF DistanceAtLeast(currentPos, lastMouseDownPos, MIN_DRAG_DISTANCE)
            THEN IF hwnd # NULL /\ hwnd = lastWindowHandler
                    /\ ~HasWindowMoved(currentWindowRect, lastWindowRect)
                 THEN "Drag" ELSE "None"
       ELSE IF isCurrentValidClick
               /\ DistanceAtMost(currentPos, lastMouseDownPos, DOUBLE_CLICK_MAX_DISTANCE)
               /\ DistanceAtMost(currentPos, lastMouseUpPos, DOUBLE_CLICK_MAX_DISTANCE)
               /\ ~DWordSubExceeds(lastMouseDownTime, lastMouseUpTime, DOUBLE_CLICK_TIME_MS)
            THEN "DoubleClick"
       ELSE "None"

\* WM_LBUTTONUP, passive mode off: the if / else-if chain on drag and double-click
DetectionInChain(currentPos, currentTime, hwnd, currentWindowRect) ==
    LET isCurrentValidClick == ~DWordSubExceeds(currentTime, lastMouseDownTime, DOUBLE_CLICK_TIME_MS)
    IN IF DWordSubExceeds(currentTime, lastMouseDownTime, MAX_DRAG_TIME_MS) THEN "None"
       ELSE IF DistanceAtLeast(currentPos, lastMouseDownPos, MIN_DRAG_DISTANCE)
            THEN IF hwnd # NULL /\ hwnd = lastWindowHandler
                    /\ ~HasWindowMoved(currentWindowRect, lastWindowRect)
                 THEN "Drag" ELSE "None"
       ELSE IF isLastValidClick /\ isCurrentValidClick
               /\ DistanceAtMost(currentPos, lastMouseDownPos, DOUBLE_CLICK_MAX_DISTANCE)
               /\ DistanceAtMost(currentPos, lastMouseUpPos, DOUBLE_CLICK_MAX_DISTANCE)
               /\ ~DWordSubExceeds(lastMouseDownTime, lastMouseUpTime, DOUBLE_CLICK_TIME_MS)
            THEN "DoubleClick"
       ELSE "None"

\* WM_LBUTTONUP, passive mode off: detectionType after the shift-click check
DetectionType(currentPos, currentTime, hwnd, currentWindowRect, keys) ==
    LET inChain == DetectionInChain(currentPos, currentTime, hwnd, currentWindowRect)
    IN IF inChain # "None" THEN inChain
       ELSE IF keys.shift /\ ~keys.ctrl /\ ~keys.alt THEN "ShiftClick" ELSE "None"

\* the locals of context c go out of scope
Leave(c) ==
    /\ pc' = [pc EXCEPT ![c] = "idle"]
    /\ sel' = [sel EXCEPT ![c] = NewSelectionInfo]
    /\ ret' = [ret EXCEPT ![c] = FALSE]
    /\ invoked' = [invoked EXCEPT ![c] = <<>>]
    /\ clip' = [clip EXCEPT ![c] = NewClip]
    /\ window' = [window EXCEPT ![c] = NoWindow]
    /\ entered' = [entered EXCEPT ![c] = FALSE]

\* the event never reaches the classifier: the record is deleted
MouseEventDiscarded(mEvent, currentPos, seq) ==
    /\ lastEvt' = [NoEvent EXCEPT !.event = mEvent, !.pos = currentPos,
                                  !.upKind = lastEvt.upKind, !.seq = seq,
                                  !.down = lastEvt.down]
    /\ UNCHANGED <<gestureVars, mouse_up_cursor, clipboard_sequence, ctxVars>>

\* case WM_LBUTTONDOWN
MouseDown(E, currentPos, currentTime, seq) ==
    \E hwnd \in E.windows :
      \E rect \in (IF hwnd # NULL THEN E.downRects ELSE {lastWindowRect}) :
        /\ lastMouseDownTime' = currentTime
        /\ lastMouseDownPos' = currentPos
        /\ lastWindowHandler' = hwnd
        /\ lastWindowRect' = rect
        /\ clipboard_sequence' = clipSeq
        /\ lastEvt' = [NoEvent EXCEPT !.event = "WM_LBUTTONDOWN", !.pos = currentPos,
                                      !.processed = TRUE, !.emitted = TRUE,
                                      !.passive = is_selection_passive_mode,
                                      !.upKind = lastEvt.upKind, !.seq = seq,
                                      !.down = [recorded |-> TRUE, seq |-> seq,
                                                clipboard_sequence |-> clipSeq]]
        /\ UNCHANGED <<lastLastMouseUpPos, lastMouseUpPos, lastMouseUpTime, isLastValidClick,
                       mouse_up_cursor, ctxVars>>

\* case WM_LBUTTONUP with the gestures classified in passive mode too
ClassifierEnabled_Always == TRUE

\* case WM_LBUTTONUP: if (!currentInstance->is_selection_passive_mode)
ClassifierEnabled == ~is_selection_passive_mode

\* case WM_LBUTTONUP; what the event reads from the system (window under the
\* mouse, its rectangle, the modifier keys, the cursor, the foreground window) is
\* drawn only where the code reads it
MouseUp(E, currentPos, currentTime, seq) ==
    /\ lastLastMouseUpPos' = lastMouseUpPos
    /\ lastMouseUpTime' = currentTime
    /\ lastMouseUpPos' = currentPos
    /\ UNCHANGED <<lastMouseDownPos, lastMouseDownTime, lastWindowHandler, lastWindowRect,
                   clipboard_sequence>>
    /\ IF ~ClassifierEnabled
       THEN /\ lastEvt' = [NoEvent EXCEPT !.event = "WM_LBUTTONUP", !.pos = currentPos,
                                          !.processed = TRUE, !.emitted = TRUE,
                                          !.passive = is_selection_passive_mode,
                                          !.upKind = "passive",
                                          !.prevUpKind = lastEvt.upKind, !.seq = seq,
                                          !.down = lastEvt.down]
            /\ UNCHANGED <<isLastValidClick, mouse_up_cursor, ctxVars>>
       ELSE \E hwnd \in (IF DragBranch(currentPos, currentTime) THEN E.windows ELSE {HwndNotRead}) :
            \E rect \in (IF DragBranch(currentPos, currentTime) /\ hwnd # NULL /\ hwnd = lastWindowHandler
                         THEN E.rects ELSE {RectNotRead}) :
            \E keys \in (IF DetectionInChain(currentPos, currentTime, hwnd, rect) = "None"
                         THEN E.keys ELSE {KeysNotRead}) :
              LET detectionType == DetectionType(currentPos, currentTime, hwnd, rect, keys)
                  shouldDetectSelection == detectionType # "None"
              IN \E cursor \in (IF shouldDetectSelection /\ is_enabled_clipboard
                                THEN E.cursors ELSE {mouse_up_cursor}) :
                 \E foreground \in (IF shouldDetectSelection THEN E.windows ELSE {HwndNotRead}) :
                 \E program \in (IF shouldDetectSelection /\ foreground # NULL
                                 THEN E.programs ELSE {window["delivery"]}) :
                   LET extraction == shouldDetectSelection /\ foreground # NULL
                   IN /\ isLastValidClick' =
                            ~DWordSubExceeds(currentTime, lastMouseDownTime, DOUBLE_CLICK_TIME_MS)
                      /\ mouse_up_cursor' = cursor
                      /\ lastEvt' = [event |-> "WM_LBUTTONUP", pos |-> currentPos,
                                     processed |-> TRUE,
                                     passive |-> is_selection_passive_mode,
                                     detectionType |-> detectionType, hwnd |-> hwnd,
                                     rect |-> rect, keys |-> keys,
                                     extraction |-> extraction, selection |-> FALSE,
                                     emitted |-> ~extraction,
                                     downPos |-> lastMouseDownPos,
                                     prevUpPos |-> lastMouseUpPos,
                                     prevUpTime |-> lastMouseUpTime,
                                     prevValid |-> isLastValidClick,
                                     upKind |-> IF detectionType = "Drag" THEN "Drag"
                                                ELSE "press",
                                     prevUpKind |-> lastEvt.upKind,
                                     strategyPosLevel |-> "None", seq |-> seq,
                                     down |-> lastEvt.down]
                      /\ IF extraction
                         THEN /\ pc' = [pc EXCEPT !["delivery"] = "gst_check"]
                              /\ sel' = [sel EXCEPT !["delivery"] = NewSelectionInfo]
                              /\ ret' = [ret EXCEPT !["delivery"] = FALSE]
                              /\ invoked' = [invoked EXCEPT !["delivery"] = <<>>]
                              /\ clip' = [clip EXCEPT !["delivery"] = NewClip]
                              /\ window' = [window EXCEPT !["delivery"] = program]
                              /\ UNCHANGED entered
                         ELSE UNCHANGED ctxVars

\* the other mouse messages: nothing is retained
MouseOther(mEvent, currentPos, seq) ==
    /\ lastEvt' = [NoEvent EXCEPT !.event = mEvent, !.pos = currentPos,
                                  !.processed = TRUE, !.emitted = TRUE,
                                  !.passive = is_selection_passive_mode,
                                  !.upKind = lastEvt.upKind, !.seq = seq,
                                  !.down = lastEvt.down]
    /\ UNCHANGED <<gestureVars, mouse_up_cursor, clipboard_sequence, ctxVars>>

\* SelectionHook::ProcessMouseEvent up to the call of GetSelectedText; E gives
\* the events and the system answers considered.  With E.fromChannel the event
\* is the oldest record of the mouse channel, which the dispatch takes out.  A
\* mouse event that starts no extraction is emitted at once
ProcessMouseEvent(E) ==
    /\ pc["delivery"] = "idle"
    /\ nEvents < E.maxEvents
    /\ IF E.fromChannel
       THEN mouseQueue # <<>> /\ mouseQueue' = Tail(mouseQueue)
       ELSE UNCHANGED mouseQueue
    /\ \E mEvent \in (IF E.fromChannel THEN {Head(mouseQueue).event} ELSE E.events),
          currentPos \in E.points, elapsed \in E.deltas :
       \E userState \in (IF SPS_Cached(now + elapsed) THEN {TRUE} ELSE E.userStates) :
         LET seq == IF E.fromChannel THEN Head(mouseQueue).seq ELSE 0
         IN /\ now' = now + elapsed
            /\ SPS_Update(now + elapsed, userState)
            /\ nEvents' = nEvents + 1
            /\ IF ~ShouldProcessGetSelection(now + elapsed, userState)
               THEN MouseEventDiscarded(mEvent, currentPos, seq)
               ELSE IF mEvent = "WM_LBUTTONDOWN"
               THEN MouseDown(E, currentPos, now + elapsed, seq)
               ELSE IF mEvent = "WM_LBUTTONUP"
               THEN MouseUp(E, currentPos, now + elapsed, seq)
               ELSE MouseOther(mEvent, currentPos, seq)
            /\ delivered' = IF lastEvt'.emitted THEN Received("mouse-event", seq)
                            ELSE delivered
    /\ UNCHANGED <<cfgVars, sessionVars, probe, is_processing, is_triggered_by_user,
                   uia_control_type, clipboardVars, callerResult, nCalls,
                   is_enabled_mouse_move_event, tsfnQueue, keyboardQueue, observed>>

\* the switch on detectionType with the shift-click case starting at the
\* latest mouse-up
PositionSelection_ShiftFromLastUp(info, detectionType) ==
    [info EXCEPT
       !.mousePosStart = CASE detectionType = "Drag" -> lastMouseDownPos
                           [] detectionType = "DoubleClick" -> lastMouseUpPos
                           [] detectionType = "ShiftClick" -> lastMouseUpPos
                           [] OTHER -> info.mousePosStart,
       !.mousePosEnd = lastMouseUpPos,
       !.posLevel = IF info.posLevel # "None" THEN info.posLevel
                    ELSE IF detectionType = "DoubleClick" THEN "MouseSingle"
                    ELSE "MouseDual"]

\* the switch on detectionType with MouseDual for every gesture
PositionSelection_AlwaysDual(info, detectionType) ==
    [info EXCEPT
       !.mousePosStart = CASE detectionType = "Drag" -> lastMouseDownPos
                           [] detectionType = "DoubleClick" -> lastMouseUpPos
                           [] detectionType = "ShiftClick" -> lastLastMouseUpPos
                           [] OTHER -> info.mousePosStart,
       !.mousePosEnd = lastMouseUpPos,
       !.posLevel = IF info.posLevel # "None" THEN info.posLevel ELSE "MouseDual"]

\* SelectionHook::ProcessMouseEvent, the switch on detectionType: the mouse
\* positions of the gesture, and a position level when the strategy gave none
PositionSelection(info, detectionType) ==
    [info EXCEPT
       !.mousePosStart = CASE detectionType = "Drag" -> lastMouseDownPos
                           [] detectionType = "DoubleClick" -> lastMouseUpPos
                           [] detectionType = "ShiftClick" -> lastLastMouseUpPos
                           [] OTHER -> info.mousePosStart,
       !.mousePosEnd = IF detectionType \in {"Drag", "DoubleClick", "ShiftClick"}
                       THEN lastMouseUpPos ELSE info.mousePosEnd,
       !.posLevel = IF info.posLevel # "None" THEN info.posLevel
                    ELSE IF detectionType = "DoubleClick" THEN "MouseSingle"
                    ELSE IF detectionType \in {"Drag", "ShiftClick"} THEN "MouseDual"
                    ELSE info.posLevel]

\* ThreadSafeFunction::NonBlockingCall: the queue of a channel after item was
\* posted to it.  A channel that is held takes the item unless its queue is
\* full (maxQueueSize 0: the queue has no limit); one that was never created
\* takes nothing; one that was released takes it or not (accepted)
NonBlockingCall(queue, channel, maxQueueSize, item, accepted) ==
    IF channel = "held" /\ (maxQueueSize = 0 \/ Len(queue) < maxQueueSize)
    THEN Append(queue, item)
    ELSE IF channel = "released" /\ accepted /\ (maxQueueSize = 0 \/ Len(queue) < maxQueueSize)
    THEN Append(queue, item)
    ELSE queue

\* SelectionHook::ProcessMouseEvent after GetSelectedText returned: a selection
\* that is not blank gets the mouse positions and is queued for the callback
DeliveryReturn ==
    /\ pc["delivery"] = "gst_ret"
    /\ LET info == sel["delivery"]
           queued == ret["delivery"] /\ ~IsTrimmedEmpty(info.text)
       IN /\ sel' = [sel EXCEPT !["delivery"] =
                        IF queued THEN PositionSelection(info, lastEvt.detectionType)
                        ELSE info]
          /\ lastEvt' = [lastEvt EXCEPT !.selection = queued,
                                        !.strategyPosLevel = info.posLevel]
          /\ \E accepted \in (IF queued /\ tsfn = "released" THEN BOOLEAN ELSE {TRUE}) :
               tsfnQueue' = IF queued
                            THEN NonBlockingCall(tsfnQueue, tsfn, SELECTION_QUEUE_SIZE,
                                                 Received("text-selection", lastEvt.seq),
                                                 accepted)
                            ELSE tsfnQueue
    /\ pc' = [pc EXCEPT !["delivery"] = "pme_emit"]
    /\ UNCHANGED <<cfgVars, sessionVars, probe, timeVars, gestureVars, sharedVars, clipboardVars,
                   ret, invoked, clip, window, entered, callerResult, countVars,
                   is_enabled_mouse_move_event, mouseQueue, keyboardQueue, observed,
                   delivered>>

\* SelectionHook::ProcessMouseEvent, the end: the mouse event is emitted
EmitMouseEvent ==
    /\ pc["delivery"] = "pme_emit"
    /\ lastEvt' = [lastEvt EXCEPT !.emitted = TRUE]
    /\ delivered' = Received("mouse-event", lastEvt.seq)
    /\ Leave("delivery")
    /\ UNCHANGED <<cfgVars, sessionVars, probe, timeVars, gestureVars, sharedVars, clipboardVars,
                   callerResult, countVars,
                   is_enabled_mouse_move_event, tsfnQueue, mouseQueue, keyboardQueue,
                   observed>>

\* an exception leaves ProcessMouseEvent: nothing in it catches
DeliveryUnwind ==
    /\ pc["delivery"] = "gst_thrown"
    /\ Leave("delivery")
    /\ UNCHANGED <<cfgVars, sessionVars, channelVars, probe, timeVars, gestureVars, sharedVars, clipboardVars,
                   outVars, countVars>>

-----------------------------------------------------------------------------
(* GetCurrentSelection *)

GetCurrentSelection(E) ==
    /\ pc["caller"] = "idle"
    /\ nCalls < MaxCalls
    /\ nCalls' = nCalls + 1
    /\ \E userState \in (IF SPS_Cached(now) THEN {TRUE} ELSE E.userStates) :
         /\ SPS_Update(now, userState)
         /\ IF ~ShouldProcessGetSelection(now, userState)
            THEN /\ callerResult' = "null"
                 /\ UNCHANGED <<is_triggered_by_user, ctxVars>>
            ELSE \E hwnd \in E.windows :
                 \E program \in (IF hwnd # NULL THEN E.programs ELSE {window["caller"]}) :
                   IF hwnd = NULL
                   THEN /\ callerResult' = "null"
                        /\ UNCHANGED <<is_triggered_by_user, ctxVars>>
                   ELSE /\ is_triggered_by_user' = TRUE
                        /\ callerResult' = "none"
                        /\ pc' = [pc EXCEPT !["caller"] = "gst_check"]
                        /\ sel' = [sel EXCEPT !["caller"] = NewSelectionInfo]
                        /\ ret' = [ret EXCEPT !["caller"] = FALSE]
                        /\ invoked' = [invoked EXCEPT !["caller"] = <<>>]
                        /\ clip' = [clip EXCEPT !["caller"] = NewClip]
                        /\ window' = [window EXCEPT !["caller"] = program]
                        /\ UNCHANGED entered
    /\ UNCHANGED <<cfgVars, sessionVars, channelVars, probe, now, gestureVars, is_processing, mouse_up_cursor,
                   uia_control_type, clipboard_sequence, clipboardVars, lastEvt, nEvents>>

\* GetCurrentSelection after GetSelectedText returned
CallerReturn ==
    /\ pc["caller"] = "gst_ret"
    /\ is_triggered_by_user' = FALSE
    /\ callerResult' = IF ~ret["caller"] \/ IsTrimmedEmpty(sel["caller"].text)
                       THEN "null" ELSE "selection"
    /\ Leave("caller")
    /\ UNCHANGED <<cfgVars, sessionVars, channelVars, probe, timeVars, gestureVars, is_processing, mouse_up_cursor,
                   uia_control_type, clipboard_sequence, clipboardVars, lastEvt, countVars>>

\* GetCurrentSelection, catch (const std::exception &)
CallerCatch ==
    /\ pc["caller"] = "gst_thrown"
    /\ is_triggered_by_user' = FALSE
    /\ callerResult' = "exception"
    /\ Leave("caller")
    /\ UNCHANGED <<cfgVars, sessionVars, channelVars, probe, timeVars, gestureVars, is_processing, mouse_up_cursor,
                   uia_control_type, clipboard_sequence, clipboardVars, lastEvt, countVars>>

-----------------------------------------------------------------------------
(* GetSelectedText, step by step in the context c that called it.  hwnd is   *)
(* never null here: both callers test it.  pUIAutomation is non-null (the    *)
(* constructor created it).                                                  *)

\* entered[c]: the invocation in context c has set is_processing.
\* positions of a context between is_processing.store(true) and the
\* is_processing.store(false) of the same invocation
GuardedSteps ==
    {"gst_filter", "gst_uia", "gst_focus", "gst_acc", "gst_gate",
     "clip_enter", "clip_poll", "clip_snapshot", "clip_insert", "clip_insert_poll",
     "clip_c", "clip_c_poll", "clip_read"}

\* if (is_processing.load()) return false;
CheckProcessing(c) ==
    /\ pc[c] = "gst_check"
    /\ pc' = [pc EXCEPT ![c] = IF is_processing THEN "gst_ret" ELSE "gst_set"]
    /\ UNCHANGED <<cfgVars, sessionVars, channelVars, probe, timeVars, gestureVars, sharedVars, clipboardVars,
                   sel, ret, invoked, clip, window, entered, outVars, countVars>>

\* else is_processing.store(true); selectionInfo.clear();
SetProcessing(c) ==
    /\ pc[c] = "gst_set"
    /\ is_processing' = TRUE
    /\ sel' = [sel EXCEPT ![c] = ClearedSelectionInfo(sel[c])]
    /\ pc' = [pc EXCEPT ![c] = "gst_filter"]
    /\ entered' = [entered EXCEPT ![c] = TRUE]
    /\ UNCHANGED <<cfgVars, sessionVars, channelVars, probe, timeVars, gestureVars, is_triggered_by_user,
                   mouse_up_cursor, uia_control_type, clipboard_sequence, clipboardVars,
                   ret, invoked, clip, window, outVars, countVars>>

\* the program name and the global filter
ApplyGlobalFilter(c) ==
    /\ pc[c] = "gst_filter"
    /\ sel' = [sel EXCEPT ![c].programName =
                  IF window[c].resolved THEN window[c].programName ELSE <<>>]
    /\ IF GlobalFilterAdmits(window[c].resolved, window[c].programName)
       THEN /\ pc' = [pc EXCEPT ![c] = "gst_uia"]
            /\ UNCHANGED is_processing
       ELSE /\ pc' = [pc EXCEPT ![c] = "gst_ret"]
            /\ is_processing' = FALSE
    /\ UNCHANGED <<cfgVars, sessionVars, channelVars, probe, timeVars, gestureVars, is_triggered_by_user,
                   mouse_up_cursor, uia_control_type, clipboard_sequence, clipboardVars,
                   ret, invoked, clip, window, entered, outVars, countVars>>

\* the chain taken in another order: legacy accessibility is passed over
AfterFailure_SkipAccessible(strategy) ==
    CASE strategy = "UIA" -> "gst_focus"
      [] strategy = "FocusControl" -> "gst_gate"
      [] strategy = "Accessible" -> "gst_gate"
      [] OTHER -> "gst_ret"

\* where GetSelectedText goes on when a strategy returned false
AfterFailure(strategy) ==
    CASE strategy = "UIA" -> "gst_focus"
      [] strategy = "FocusControl" -> "gst_acc"
      [] strategy = "Accessible" -> "gst_gate"
      [] OTHER -> "gst_ret"

\* a strategy returned: on true the method is stamped and the call returns true;
\* on false the next one is tried, and after the last one the call returns false
StrategyReturned(c, strategy, result, info) ==
    /\ invoked' = [invoked EXCEPT ![c] = Append(@, [strategy |-> strategy, result |-> result])]
    /\ IF result
       THEN /\ sel' = [sel EXCEPT ![c] = [info EXCEPT !.method = strategy]]
            /\ is_processing' = FALSE
            /\ ret' = [ret EXCEPT ![c] = TRUE]
            /\ pc' = [pc EXCEPT ![c] = "gst_ret"]
       ELSE /\ sel' = [sel EXCEPT ![c] = info]
            /\ pc' = [pc EXCEPT ![c] = AfterFailure(strategy)]
            /\ is_processing' = IF AfterFailure(strategy) = "gst_ret" THEN FALSE ELSE is_processing
            /\ UNCHANGED ret

\* a strategy threw: control leaves GetSelectedText at once
StrategyThrew(c, strategy) ==
    /\ invoked' = [invoked EXCEPT ![c] = Append(@, [strategy |-> strategy, result |-> FALSE])]
    /\ pc' = [pc EXCEPT ![c] = "gst_thrown"]
    /\ UNCHANGED <<sel, ret, is_processing>>

\* what UI Automation answers when nothing has the focus
UiaNothing ==
    [kind |-> "return", focused |-> FALSE, controlType |-> "Window", pattern |-> FALSE,
     selection |-> <<>>, document |-> <<>>, legacy |-> [read |-> FALSE, text |-> <<>>]]

\* a call into UI Automation that raises
UiaThrows == [UiaNothing EXCEPT !.kind = "throw"]

\* a range of a text pattern: its text and its bounding rectangles
TextRange(text, rects) == [active |-> TRUE, text |-> text, bounds |-> TRUE, rects |-> rects]

\* a focused document whose selection is one range
UiaSelection(text, rects) ==
    [UiaNothing EXCEPT !.focused = TRUE, !.controlType = "Document", !.pattern = TRUE,
                       !.selection = <<TextRange(text, rects)>>]

\* a focused control read through the legacy accessible pattern only
UiaLegacy(text) ==
    [UiaNothing EXCEPT !.focused = TRUE, !.controlType = "Document",
                       !.legacy = [read |-> TRUE, text |-> text]]

\* one line of text selected in a document, 5 by 20 pixels at (10, 10)
UiaSelected == UiaSelection(T_sel, <<Bounds(20, 20, 10, 40)>>)

\* GetTextViaUIAutomation: u is what UI Automation answers; the text read
\* from a range stays in selectionInfo also when the strategy returns false
GetTextViaUIAutomation(c, E) ==
    /\ pc[c] = "gst_uia"
    /\ \E u \in E.uia :
         /\ uia_control_type' = u.controlType
         /\ IF u.kind = "throw"
            THEN StrategyThrew(c, "UIA")
            ELSE LET done == UIAutomationText(u, sel[c])
                 IN StrategyReturned(c, "UIA", done.result, done.info)
    /\ UNCHANGED <<cfgVars, sessionVars, channelVars, probe, timeVars, gestureVars, is_triggered_by_user,
                   mouse_up_cursor, clipboard_sequence, clipboardVars, clip, window,
                   entered, outVars, countVars>>

\* GetTextViaFocusedControl: returns !selectionInfo.text.empty()
GetTextViaFocusedControl(c, E) ==
    /\ pc[c] = "gst_focus"
    /\ \E outcome \in E.focus :
         IF outcome.kind = "throw"
         THEN StrategyThrew(c, "FocusControl")
         ELSE IF ~outcome.focused
         THEN StrategyReturned(c, "FocusControl", FALSE, sel[c])
         ELSE LET info == [sel[c] EXCEPT
                             !.text = IF outcome.text # <<>> THEN outcome.text ELSE @,
                             !.startTop = Point(outcome.rect.left, outcome.rect.top),
                             !.startBottom = Point(outcome.rect.left, outcome.rect.bottom),
                             !.endTop = Point(outcome.rect.right, outcome.rect.top),
                             !.endBottom = Point(outcome.rect.right, outcome.rect.bottom)]
              IN StrategyReturned(c, "FocusControl", info.text # <<>>, info)
    /\ UNCHANGED <<cfgVars, sessionVars, channelVars, probe, timeVars, gestureVars, is_triggered_by_user,
                   mouse_up_cursor, uia_control_type, clipboard_sequence, clipboardVars,
                   clip, window, entered, outVars, countVars>>

\* GetTextViaAccessible
GetTextViaAccessible(c, E) ==
    /\ pc[c] = "gst_acc"
    /\ \E outcome \in E.accessible :
         IF outcome.kind = "throw"
         THEN StrategyThrew(c, "Accessible")
         ELSE IF outcome.kind = "fail"
         THEN StrategyReturned(c, "Accessible", FALSE, sel[c])
         ELSE StrategyReturned(c, "Accessible", TRUE,
                               IF outcome.posLevel = "Full"
                               THEN [sel[c] EXCEPT
                                       !.text = outcome.text,
                                       !.posLevel = "Full",
                                       !.startTop = Point(outcome.rect.left, outcome.rect.top),
                                       !.startBottom = Point(outcome.rect.left, outcome.rect.bottom),
                                       !.endTop = Point(outcome.rect.right, outcome.rect.top),
                                       !.endBottom = Point(outcome.rect.right, outcome.rect.bottom)]
                               ELSE [sel[c] EXCEPT !.text = outcome.text])
    /\ UNCHANGED <<cfgVars, sessionVars, channelVars, probe, timeVars, gestureVars, is_triggered_by_user,
                   mouse_up_cursor, uia_control_type, clipboard_sequence, clipboardVars,
                   clip, window, entered, outVars, countVars>>

\* the conditions of the clipboard fallback without the test of the switch
ShouldProcessViaClipboard_SwitchIgnored(programName) ==
    IF ~ClipboardFilterStage(programName) THEN FALSE
    ELSE IF ~is_triggered_by_user /\ mouse_up_cursor # "IDC_IBEAM"
    THEN IF mouse_up_cursor # "IDC_ARROW" /\ mouse_up_cursor # "IDC_HAND"
         THEN IsInFilterList(programName, ftl_exclude_clipboard_cursor_detect)
         ELSE uia_control_type \in {"Group", "Document", "Text"}
    ELSE TRUE

\* SelectionHook::ShouldProcessViaClipboard
ShouldProcessViaClipboard(programName) ==
    IF ~is_enabled_clipboard THEN FALSE
    ELSE IF ~ClipboardFilterStage(programName) THEN FALSE
    ELSE IF ~is_triggered_by_user /\ mouse_up_cursor # "IDC_IBEAM"
    THEN IF mouse_up_cursor # "IDC_ARROW" /\ mouse_up_cursor # "IDC_HAND"
         THEN IsInFilterList(programName, ftl_exclude_clipboard_cursor_detect)
         ELSE uia_control_type \in {"Group", "Document", "Text"}
    ELSE TRUE

\* if (ShouldProcessViaClipboard(hwnd, selectionInfo.programName) && ...
ClipboardGate(c) ==
    /\ pc[c] = "gst_gate"
    /\ IF ShouldProcessViaClipboard(sel[c].programName)
       THEN /\ pc' = [pc EXCEPT ![c] = "clip_enter"]
            /\ UNCHANGED is_processing
       ELSE /\ pc' = [pc EXCEPT ![c] = "gst_ret"]
            /\ is_processing' = FALSE
    /\ UNCHANGED <<cfgVars, sessionVars, channelVars, probe, timeVars, gestureVars, is_triggered_by_user,
                   mouse_up_cursor, uia_control_type, clipboard_sequence, clipboardVars,
                   sel, ret, invoked, clip, window, entered, outVars, countVars>>

-----------------------------------------------------------------------------
(* GetTextViaClipboard.  The system clipboard holds one text (<<>>: no text); *)
(* every change of it advances its sequence number.  OpenClipboard may fail  *)
(* (openOk), the keys read by GetAsyncKeyState are keys.ctrl and keys.c, and *)
(* reaction is what the target application does with a synthetic shortcut.   *)

\* ReadClipboard: the text left in content, which had the value before
ReadClipboard(before, openOk) == IF openOk /\ clipboard # <<>> THEN clipboard ELSE before

ReadClipboardSucceeds(openOk) == openOk /\ clipboard # <<>>

\* SelectionHook::ShouldKeyInterruptViaClipboard
ShouldKeyInterruptViaClipboard(keys) == ~is_triggered_by_user /\ keys.ctrl

\* SelectionHook::SendCopyKey: the shortcuts sent so far by the call, with type
\* added unless Ctrl+C is held down
SendCopyKey(sent, type, keys) == IF keys.ctrl /\ keys.c THEN sent ELSE Append(sent, type)

\* GetTextViaClipboard returns result at the return statement exit, leaving info
\* in selectionInfo and clipboardAfter on the clipboard
ClipboardExits(c, result, info, clipboardAfter, exit) ==
    /\ StrategyReturned(c, "Clipboard", result, info)
    /\ clip' = [clip EXCEPT ![c].returned = TRUE, ![c].atReturn = clipboardAfter,
                            ![c].exit = exit]

\* a return statement after the key check, named by the position of the call
ClipboardReturns(c, result, info, clipboardAfter) ==
    ClipboardExits(c, result, info, clipboardAfter, pc[c])

\* the application's reaction to a shortcut that was sent
React(c, reaction) ==
    IF clip[c].sentCopy /\ reaction.copies
    THEN [text |-> reaction.text, seq |-> clipSeq + 1]
    ELSE [text |-> clipboard, seq |-> clipSeq]

\* ReadClipboard(selectionInfo.text) followed by
\* if (!existingContent.empty()) WriteClipboard(existingContent), on a clipboard
\* that holds cur
ReadAndRestore(c, cur, readOk, writeOk) ==
    LET readSuccess == readOk /\ cur.text # <<>>
        text == IF readSuccess THEN cur.text ELSE sel[c].text
        restores == clip[c].existingContent # <<>> /\ writeOk
        after == IF restores THEN clip[c].existingContent ELSE cur.text
    IN /\ clipboard' = after
       /\ clipSeq' = IF restores THEN cur.seq + 1 ELSE cur.seq
       /\ ClipboardReturns(c, readSuccess /\ text # <<>>, [sel[c] EXCEPT !.text = text], after)

maxChecks == 5

\* if (!is_triggered_by_user): the key check preprocessing is entered or skipped
ClipboardPreCheck(c, E) ==
    /\ pc[c] = "clip_enter"
    /\ pc' = [pc EXCEPT ![c] = IF is_triggered_by_user THEN "clip_snapshot" ELSE "clip_poll"]
    /\ UNCHANGED <<cfgVars, sessionVars, channelVars, probe, timeVars, gestureVars, sharedVars,
                   clipboardVars, sel, ret, invoked, clip, window, entered, outVars, countVars>>

\* the locals isXPressed of the key check after a pass that read keys
KeysPressed(pressed, keys) ==
    AsyncKeys(pressed.ctrl \/ keys.ctrl, pressed.c \/ keys.c,
              pressed.x \/ keys.x, pressed.v \/ keys.v)

\* if (isCtrlPressed && (isCPressed || isXPressed || isVPressed))
UserCopyBehavior(pressed) == pressed.ctrl /\ (pressed.c \/ pressed.x \/ pressed.v)

\* else if (!is_triggered_by_user) return false;
KeyCheckAbstains(keys) == ~is_triggered_by_user

\* the key check without the test of the sequence number
SequenceChanged_Never == FALSE

\* if (GetClipboardSequenceNumber() != clipboard_sequence)
SequenceChanged == clipSeq # clipboard_sequence

\* one pass of while (checkCount < maxChecks), with what follows the loop when
\* the pass leaves it
ClipboardKeyCheck(c, E) ==
    /\ pc[c] = "clip_poll"
    /\ IF SequenceChanged
       THEN \E openOk \in E.openOk :
              LET text == ReadClipboard(sel[c].text, openOk)
              IN ClipboardExits(c, ReadClipboardSucceeds(openOk) /\ text # <<>>,
                                [sel[c] EXCEPT !.text = text], clipboard, "sequence")
       ELSE \E keys \in E.copyKeys :
              IF keys = NoKeyDown
              THEN IF UserCopyBehavior(clip[c].pressed)
                   THEN ClipboardExits(c, FALSE, sel[c], clipboard, "copying")
                   ELSE /\ pc' = [pc EXCEPT ![c] = "clip_snapshot"]
                        /\ UNCHANGED <<sel, ret, invoked, clip, is_processing>>
              ELSE IF KeyCheckAbstains(keys)
              THEN ClipboardExits(c, FALSE, sel[c], clipboard, "held")
              ELSE IF clip[c].checkCount + 1 >= maxChecks
              THEN ClipboardExits(c, FALSE, sel[c], clipboard, "window")
              ELSE /\ clip' = [clip EXCEPT ![c].checkCount = @ + 1,
                                         ![c].pressed = KeysPressed(@, keys)]
                   /\ UNCHANGED <<pc, sel, ret, invoked, is_processing>>
    /\ UNCHANGED <<cfgVars, sessionVars, channelVars, probe, timeVars, gestureVars, is_triggered_by_user,
                   mouse_up_cursor, uia_control_type, clipboard_sequence, clipboardVars,
                   window, entered, outVars, countVars>>

\* Ctrl+Insert tried first for every program
FirstShortcut_AlwaysInsert(isInDelayReadList) == "clip_insert"

\* if (!isInDelayReadList): where the call goes on after the snapshot
FirstShortcut(isInDelayReadList) == IF isInDelayReadList THEN "clip_c" ELSE "clip_insert"

\* Save existing clipboard content, and empty the clipboard
ClipboardSnapshot(c, E) ==
    /\ pc[c] = "clip_snapshot"
    /\ \E openOk \in E.openOk :
         IF ~openOk
         THEN /\ ClipboardReturns(c, FALSE, sel[c], clipboard)
              /\ UNCHANGED <<clipboard, clipSeq>>
         ELSE LET isInDelayReadList ==
                      sel[c].programName # <<>> /\
                      IsInFilterList(sel[c].programName, ftl_include_clipboard_delay_read)
              IN /\ clip' = [clip EXCEPT ![c].existingContent = clipboard,
                                         ![c].snapshot = TRUE,
                                         ![c].isInDelayReadList = isInDelayReadList]
                 /\ clipboard' = <<>>
                 /\ clipSeq' = clipSeq + 1
                 /\ pc' = [pc EXCEPT ![c] = FirstShortcut(isInDelayReadList)]
                 /\ UNCHANGED <<sel, ret, invoked, is_processing>>
    /\ UNCHANGED <<cfgVars, sessionVars, channelVars, probe, timeVars, gestureVars, is_triggered_by_user,
                   mouse_up_cursor, uia_control_type, clipboard_sequence,
                   window, entered, outVars, countVars>>

\* a copy shortcut: the interruption check, the renewal of clipboard_sequence,
\* SendCopyKey
ClipboardSend(c, E, at, type, next) ==
    /\ pc[c] = at
    /\ \E keys \in E.copyKeys :
         IF ShouldKeyInterruptViaClipboard(keys)
         THEN /\ ClipboardReturns(c, FALSE, sel[c], clipboard)
              /\ UNCHANGED clipboard_sequence
         ELSE /\ clipboard_sequence' = clipSeq
              /\ clip' = [clip EXCEPT ![c].sent = SendCopyKey(@, type, keys),
                                         ![c].sentCopy = ~(keys.ctrl /\ keys.c)]
              /\ pc' = [pc EXCEPT ![c] = next]
              /\ UNCHANGED <<sel, ret, invoked, is_processing>>
    /\ UNCHANGED <<cfgVars, sessionVars, channelVars, probe, timeVars, gestureVars, is_triggered_by_user,
                   mouse_up_cursor, uia_control_type, clipboard, clipSeq,
                   window, entered, outVars, countVars>>

\* Ctrl+Insert
ClipboardCtrlInsert(c, E) == ClipboardSend(c, E, "clip_insert", "CtrlInsert", "clip_insert_poll")

\* Ctrl+C
ClipboardCtrlC(c, E) == ClipboardSend(c, E, "clip_c", "CtrlC", "clip_c_poll")

\* the wait after Ctrl+Insert: on a change of the sequence number the clipboard
\* is read and restored, otherwise Ctrl+C is tried
ClipboardCtrlInsertPoll(c, E) ==
    /\ pc[c] = "clip_insert_poll"
    /\ \E reaction \in E.reactions, readOk \in E.openOk, writeOk \in E.openOk :
         LET cur == React(c, reaction)
         IN IF cur.seq # clipboard_sequence
            THEN ReadAndRestore(c, cur, readOk, writeOk)
            ELSE /\ pc' = [pc EXCEPT ![c] = "clip_c"]
                 /\ clip' = [clip EXCEPT ![c].insertTimedOut = TRUE]
                 /\ UNCHANGED <<clipboard, clipSeq, sel, ret, invoked, is_processing>>
    /\ UNCHANGED <<cfgVars, sessionVars, channelVars, probe, timeVars, gestureVars, is_triggered_by_user,
                   mouse_up_cursor, uia_control_type, clipboard_sequence,
                   window, entered, outVars, countVars>>

\* the wait after Ctrl+C: without a change the snapshot is restored and the call
\* returns false
ClipboardCtrlCPoll(c, E) ==
    /\ pc[c] = "clip_c_poll"
    /\ \E reaction \in E.reactions, writeOk \in E.openOk :
         LET cur == React(c, reaction)
             restores == clip[c].existingContent # <<>> /\ writeOk
             after == IF restores THEN clip[c].existingContent ELSE cur.text
         IN IF cur.seq # clipboard_sequence
            THEN /\ clipboard' = cur.text
                 /\ clipSeq' = cur.seq
                 /\ pc' = [pc EXCEPT ![c] = "clip_read"]
                 /\ UNCHANGED <<sel, ret, invoked, clip, is_processing>>
            ELSE /\ clipboard' = after
                 /\ clipSeq' = IF restores THEN cur.seq + 1 ELSE cur.seq
                 /\ ClipboardReturns(c, FALSE, sel[c], after)
    /\ UNCHANGED <<cfgVars, sessionVars, channelVars, probe, timeVars, gestureVars, is_triggered_by_user,
                   mouse_up_cursor, uia_control_type, clipboard_sequence,
                   window, entered, outVars, countVars>>

\* after the delay: the last interruption check, the read and the restore
ClipboardRead(c, E) ==
    /\ pc[c] = "clip_read"
    /\ \E keys \in E.copyKeys, readOk \in E.openOk, writeOk \in E.openOk :
         IF ShouldKeyInterruptViaClipboard(keys)
         THEN /\ ClipboardReturns(c, FALSE, sel[c], clipboard)
              /\ UNCHANGED <<clipboard, clipSeq>>
         ELSE ReadAndRestore(c, [text |-> clipboard, seq |-> clipSeq], readOk, writeOk)
    /\ UNCHANGED <<cfgVars, sessionVars, channelVars, probe, timeVars, gestureVars, is_triggered_by_user,
                   mouse_up_cursor, uia_control_type, clipboard_sequence,
                   window, entered, outVars, countVars>>

-----------------------------------------------------------------------------
(* The session: the control surface as JavaScript calls it, Start, Stop, the *)
(* destructor, and the hook thread.  A delivery channel (thread-safe         *)
(* function) is "none" before it is created, then "held", then "released".   *)

MaxStarts == 2
MaxControlCalls == 3
\* inputs the hooks observe
MaxInputs == 3

\* values handed over by JavaScript
JsFunction == [type |-> "function"]
JsNumber(n) == [type |-> "number", n |-> n]
JsArray(a) == [type |-> "array", a |-> a]
JsBoolean(b) == [type |-> "boolean", b |-> b]
JsText == [type |-> "string"]

ThreadIds == 1..MaxStarts

NoCall == [seq |-> 0, method |-> "none", info |-> <<>>, error |-> "none", wasRunning |-> FALSE]

NoTeardown == [op |-> "none", signalled |-> FALSE, joined |-> FALSE, timedOut |-> FALSE]

\* no hook callback yet.  For a callback: the channel of its hook, the event
\* and its number, is_processing and the mouse-move setting as it read them,
\* whether it posted the event, the state of the channel it posted to ("none"
\* when it did not post), and whether it called CallNextHookEx.  Of all the
\* callbacks so far: downs, the numbers of the primary-button-downs the mouse
\* hook observed, and unfreed, the numbers of the records that were allocated,
\* that no channel took and that nothing deleted
NoPost ==
    [channel |-> "none", state |-> "none", event |-> "none", seq |-> 0,
     processing |-> FALSE, moveEnabled |-> FALSE, forwarded |-> FALSE, passedOn |-> FALSE,
     downs |-> {}, unfreed |-> {}]

\* a hook thread not yet created
NoThread ==
    [pc |-> "unborn", mouseHook |-> FALSE, keyboardHook |-> FALSE, hasQueue |-> FALSE,
     posted |-> FALSE, installFailed |-> FALSE, stopRequested |-> FALSE]

sessionState == <<running, mouse_keyboard_running, tsfn, mouse_tsfn, keyboard_tsfn,
                  mouse_keyboard_hook_thread, mouse_keyboard_thread_id, hookThreads>>

\* The members as the constructor leaves them
InitSession ==
    /\ running = FALSE
    /\ mouse_keyboard_running = FALSE
    /\ tsfn = "none"
    /\ mouse_tsfn = "none"
    /\ keyboard_tsfn = "none"
    /\ mouse_keyboard_hook_thread = NULL
    /\ mouse_keyboard_thread_id = 0
    /\ hookThreads = [n \in ThreadIds |-> NoThread]
    /\ jsPc = "idle"
    /\ lastCall = NoCall
    /\ teardown = NoTeardown
    /\ lastPost = NoPost

\* a call of the control surface can begin: the JavaScript thread is in no other
CanCall == jsPc = "idle" /\ lastCall.seq < MaxControlCalls

\* the call returns, having thrown error ("none": nothing thrown)
Called(method, info, error) ==
    lastCall' = [seq |-> lastCall.seq + 1, method |-> method, info |-> info,
                 error |-> error, wasRunning |-> running]

\* ThreadSafeFunction::Release
Release(channel) == IF channel # "none" THEN "released" ELSE channel

\* Start, the two checks, without the one on running
StartError_NoRunningCheck(info) ==
    IF Len(info) < 1 \/ info[1].type # "function"
    THEN "Function expected as first argument"
    ELSE "none"

\* SelectionHook::Start, the two checks made before anything is acquired
StartError(info) ==
    IF Len(info) < 1 \/ info[1].type # "function"
    THEN "Function expected as first argument"
    ELSE IF running THEN "Text selection hook is already running"
    ELSE "none"

\* the rollback of Start with the selection channel left as it is
RollbackChannels_SelectionKept ==
    [tsfn |-> "held", mouse_tsfn |-> "released", keyboard_tsfn |-> "released"]

\* SelectionHook::Start, if (!mouse_keyboard_hook_thread): the three Release calls
RollbackChannels ==
    [tsfn |-> "released", mouse_tsfn |-> "released", keyboard_tsfn |-> "released"]

\* SelectionHook::Start; created tells whether CreateThread gives a thread.
\* Every ThreadSafeFunction::New makes a channel with an empty queue
Start(info, created) ==
    /\ CanCall
    /\ LET error == StartError(info)
           threadId == Cardinality({n \in ThreadIds : hookThreads[n].pc # "unborn"}) + 1
       IN IF error # "none"
          THEN /\ Called("start", info, error)
               /\ UNCHANGED <<sessionState, teardown>>
          ELSE IF ~created
          THEN /\ Called("start", info, "Failed to create mouse keyboard hook thread")
               /\ mouse_keyboard_running' = FALSE
               /\ tsfn' = RollbackChannels.tsfn
               /\ mouse_tsfn' = RollbackChannels.mouse_tsfn
               /\ keyboard_tsfn' = RollbackChannels.keyboard_tsfn
               /\ mouse_keyboard_hook_thread' = NULL
               /\ teardown' = NoTeardown
               /\ UNCHANGED <<running, mouse_keyboard_thread_id, hookThreads>>
          ELSE /\ threadId \in ThreadIds
               /\ Called("start", info, "none")
               /\ tsfn' = "held"
               /\ mouse_tsfn' = IF mouse_keyboard_running THEN mouse_tsfn ELSE "held"
               /\ keyboard_tsfn' = IF mouse_keyboard_running THEN keyboard_tsfn ELSE "held"
               /\ mouse_keyboard_running' = TRUE
               /\ mouse_keyboard_hook_thread' = threadId
               /\ mouse_keyboard_thread_id' = threadId
               /\ hookThreads' = [hookThreads EXCEPT ![threadId].pc = "start"]
               /\ running' = TRUE
               /\ teardown' = NoTeardown
    /\ IF StartError(info) = "none"
       THEN /\ tsfnQueue' = <<>>
            /\ mouseQueue' = IF mouse_keyboard_running THEN mouseQueue ELSE <<>>
            /\ keyboardQueue' = IF mouse_keyboard_running THEN keyboardQueue ELSE <<>>
       ELSE UNCHANGED <<tsfnQueue, mouseQueue, keyboardQueue>>
    /\ UNCHANGED <<cfgVars, probe, engineVars, jsPc, lastPost,
                   is_enabled_mouse_move_event, observed, delivered>>

\* the argument check of setClipboardMode, setGlobalFilterMode, setFineTunedList
NumberAndArrayError(info) ==
    IF Len(info) < 2 \/ info[1].type # "number" \/ info[2].type # "array"
    THEN "Number and Array expected as arguments"
    ELSE "none"

\* napi entry of SelectionHook::SetClipboardMode
CallSetClipboardMode(info) ==
    /\ CanCall
    /\ Called("setClipboardMode", info, NumberAndArrayError(info))
    /\ IF NumberAndArrayError(info) # "none"
       THEN UNCHANGED cfgVars
       ELSE SetClipboardMode(info[1].n, info[2].a)
    /\ UNCHANGED <<probe, engineVars, channelVars, sessionState, jsPc, teardown, lastPost>>

\* napi entry of SelectionHook::SetGlobalFilterMode
CallSetGlobalFilterMode(info) ==
    /\ CanCall
    /\ Called("setGlobalFilterMode", info, NumberAndArrayError(info))
    /\ IF NumberAndArrayError(info) # "none"
       THEN UNCHANGED cfgVars
       ELSE SetGlobalFilterMode(info[1].n, info[2].a)
    /\ UNCHANGED <<probe, engineVars, channelVars, sessionState, jsPc, teardown, lastPost>>

\* napi entry of SelectionHook::SetFineTunedList
CallSetFineTunedList(info) ==
    /\ CanCall
    /\ IF NumberAndArrayError(info) # "none"
       THEN /\ Called("setFineTunedList", info, NumberAndArrayError(info))
            /\ UNCHANGED cfgVars
       ELSE IF info[1].n \notin {ExcludeClipboardCursorDetect, IncludeClipboardDelayRead}
       THEN /\ Called("setFineTunedList", info, "Invalid FineTunedListType")
            /\ UNCHANGED cfgVars
       ELSE /\ Called("setFineTunedList", info, "none")
            /\ SetFineTunedList(info[1].n, info[2].a)
    /\ UNCHANGED <<probe, engineVars, channelVars, sessionState, jsPc, teardown, lastPost>>

\* napi entry of SelectionHook::SetSelectionPassiveMode
CallSetSelectionPassiveMode(info) ==
    /\ CanCall
    /\ IF Len(info) < 1 \/ info[1].type # "boolean"
       THEN /\ Called("setSelectionPassiveMode", info, "Boolean expected as argument")
            /\ UNCHANGED cfgVars
       ELSE /\ Called("setSelectionPassiveMode", info, "none")
            /\ SetSelectionPassiveMode(info[1].b)
    /\ UNCHANGED <<probe, engineVars, channelVars, sessionState, jsPc, teardown, lastPost>>

\* SelectionHook::Stop up to the release of the selection channel
Stop ==
    /\ CanCall
    /\ Called("stop", <<>>, "none")
    /\ IF ~running
       THEN UNCHANGED <<running, tsfn, jsPc, teardown>>
       ELSE /\ running' = FALSE
            /\ tsfn' = Release(tsfn)
            /\ teardown' = [NoTeardown EXCEPT !.op = "stop"]
            /\ jsPc' = IF mouse_keyboard_running THEN "td_signal" ELSE "idle"
    /\ UNCHANGED <<cfgVars, probe, engineVars, channelVars, mouse_keyboard_running, mouse_tsfn,
                   keyboard_tsfn, mouse_keyboard_hook_thread, mouse_keyboard_thread_id,
                   hookThreads, lastPost>>

\* SelectionHook::~SelectionHook up to the release of the selection channel
Destructor ==
    /\ CanCall
    /\ Called("destroy", <<>>, "none")
    /\ running' = FALSE
    /\ tsfn' = IF running THEN Release(tsfn) ELSE tsfn
    /\ teardown' = [NoTeardown EXCEPT !.op = "destroy"]
    /\ jsPc' = IF mouse_keyboard_running THEN "td_signal" ELSE "destroyed"
    /\ UNCHANGED <<cfgVars, probe, engineVars, channelVars, mouse_keyboard_running, mouse_tsfn,
                   keyboard_tsfn, mouse_keyboard_hook_thread, mouse_keyboard_thread_id,
                   hookThreads, lastPost>>

\* Stop and the destructor: the flag is cleared and WM_USER is posted to the hook
\* thread; PostThreadMessageW fails when the thread has no message queue (yet,
\* or any more)
TeardownSignal ==
    /\ jsPc = "td_signal"
    /\ mouse_keyboard_running' = FALSE
    /\ LET id == mouse_keyboard_thread_id
       IN /\ hookThreads' =
                IF id = 0 THEN hookThreads
                ELSE [hookThreads EXCEPT
                        ![id].stopRequested = TRUE,
                        ![id].posted = @ \/ (hookThreads[id].hasQueue /\
                                             hookThreads[id].pc # "exited")]
          /\ teardown' = [teardown EXCEPT !.signalled = (id # 0)]
    /\ jsPc' = "td_join"
    /\ UNCHANGED <<cfgVars, probe, engineVars, channelVars, running, tsfn, mouse_tsfn, keyboard_tsfn,
                   mouse_keyboard_hook_thread, mouse_keyboard_thread_id, lastCall, lastPost>>

\* Stop and the destructor: WaitForSingleObject(thread, 1000) returns, the thread
\* having exited or not, and the handle is closed
TeardownJoin ==
    /\ jsPc = "td_join"
    /\ IF mouse_keyboard_hook_thread # NULL
       THEN /\ teardown' = [teardown EXCEPT
                              !.joined = TRUE,
                              !.timedOut =
                                  hookThreads[mouse_keyboard_hook_thread].pc # "exited"]
            /\ mouse_keyboard_hook_thread' = NULL
       ELSE UNCHANGED <<teardown, mouse_keyboard_hook_thread>>
    /\ jsPc' = "td_release"
    /\ UNCHANGED <<cfgVars, probe, engineVars, channelVars, running, mouse_keyboard_running, tsfn,
                   mouse_tsfn, keyboard_tsfn, mouse_keyboard_thread_id, hookThreads,
                   lastCall, lastPost>>

\* Stop and the destructor: the mouse and keyboard channels are released
TeardownRelease ==
    /\ jsPc = "td_release"
    /\ mouse_tsfn' = Release(mouse_tsfn)
    /\ keyboard_tsfn' = Release(keyboard_tsfn)
    /\ jsPc' = IF teardown.op = "destroy" THEN "destroyed" ELSE "idle"
    /\ UNCHANGED <<cfgVars, probe, engineVars, channelVars, running, mouse_keyboard_running, tsfn,
                   mouse_keyboard_hook_thread, mouse_keyboard_thread_id, hookThreads,
                   lastCall, teardown, lastPost>>

\* MouseKeyboardHookThreadProc: the two SetWindowsHookEx calls, each of which can
\* fail; the first of them gives the thread its message queue
ThreadProc_SetHooks(n) ==
    /\ hookThreads[n].pc = "start"
    /\ \E mouseOk \in BOOLEAN, keyboardOk \in BOOLEAN :
         hookThreads' = [hookThreads EXCEPT
                           ![n].pc = "pump",
                           ![n].hasQueue = TRUE,
                           ![n].mouseHook = mouseOk,
                           ![n].keyboardHook = keyboardOk,
                           ![n].installFailed = ~mouseOk \/ ~keyboardOk]
    /\ UNCHANGED <<cfgVars, probe, engineVars, channelVars, running, mouse_keyboard_running, tsfn,
                   mouse_tsfn, keyboard_tsfn, mouse_keyboard_hook_thread,
                   mouse_keyboard_thread_id, jsPc, lastCall, teardown, lastPost>>

\* MouseKeyboardHookThreadProc: GetMessage returns WM_USER, both hooks are removed
ThreadProc_GetMessage(n) ==
    /\ hookThreads[n].pc = "pump"
    /\ hookThreads[n].posted
    /\ hookThreads' = [hookThreads EXCEPT
                         ![n].pc = "release",
                         ![n].posted = FALSE,
                         ![n].mouseHook = FALSE,
                         ![n].keyboardHook = FALSE]
    /\ UNCHANGED <<cfgVars, probe, engineVars, channelVars, running, mouse_keyboard_running, tsfn,
                   mouse_tsfn, keyboard_tsfn, mouse_keyboard_hook_thread,
                   mouse_keyboard_thread_id, jsPc, lastCall, teardown, lastPost>>

\* MouseKeyboardHookThreadProc: after the loop the thread releases the mouse and
\* keyboard channels of the instance and returns
ThreadProc_Release(n) ==
    /\ hookThreads[n].pc = "release"
    /\ mouse_tsfn' = Release(mouse_tsfn)
    /\ keyboard_tsfn' = Release(keyboard_tsfn)
    /\ hookThreads' = [hookThreads EXCEPT ![n].pc = "exited"]
    /\ UNCHANGED <<cfgVars, probe, engineVars, channelVars, running, mouse_keyboard_running, tsfn,
                   mouse_keyboard_hook_thread, mouse_keyboard_thread_id, jsPc, lastCall,
                   teardown, lastPost>>

\* the test of the hook callbacks with is_processing left out
Forwards_WhileProcessing(channel, event) ==
    IF channel = "mouse"
    THEN ~(event = "WM_MOUSEMOVE" /\ ~is_enabled_mouse_move_event)
    ELSE TRUE

\* MouseHookCallback / KeyboardHookCallback, the test that lets an event with
\* nCode == HC_ACTION through while currentInstance is set
Forwards(channel, event) ==
    IF channel = "mouse"
    THEN ~is_processing /\ ~(event = "WM_MOUSEMOVE" /\ ~is_enabled_mouse_move_event)
    ELSE ~is_processing

\* MouseHookCallback / KeyboardHookCallback on the hook thread n, for an input
\* with nCode == HC_ACTION while currentInstance is set: the event is posted to
\* the channel unless an extraction is in progress or it is a mouse-move that
\* is not reported, and CallNextHookEx is called
HookCallback(n, channel, event) ==
    /\ hookThreads[n].pc = "pump"
    /\ IF channel = "mouse" THEN hookThreads[n].mouseHook ELSE hookThreads[n].keyboardHook
    /\ jsPc # "destroyed"
    /\ observed < MaxInputs
    /\ observed' = observed + 1
    /\ LET forwarded == Forwards(channel, event)
           state == IF channel = "mouse" THEN mouse_tsfn ELSE keyboard_tsfn
           item == [event |-> event, seq |-> observed + 1]
           queue == IF channel = "mouse" THEN mouseQueue ELSE keyboardQueue
           size == IF channel = "mouse" THEN DEFAULT_MOUSE_EVENT_QUEUE_SIZE
                   ELSE DEFAULT_KEYBOARD_EVENT_QUEUE_SIZE
       IN \E accepted \in (IF forwarded /\ state = "released" THEN BOOLEAN ELSE {TRUE}) :
            LET posted == IF forwarded
                          THEN NonBlockingCall(queue, state, size, item, accepted)
                          ELSE queue
            IN /\ lastPost' = [channel |-> channel,
                               state |-> IF forwarded THEN state ELSE "none",
                               event |-> event, seq |-> observed + 1,
                               processing |-> is_processing,
                               moveEnabled |-> is_enabled_mouse_move_event,
                               forwarded |-> forwarded, passedOn |-> TRUE,
                               downs |-> IF channel = "mouse" /\ event = "WM_LBUTTONDOWN"
                                         THEN lastPost.downs \cup {observed + 1}
                                         ELSE lastPost.downs,
                               unfreed |-> IF forwarded /\ posted = queue
                                           THEN lastPost.unfreed \cup {observed + 1}
                                           ELSE lastPost.unfreed]
               /\ IF channel = "mouse"
                  THEN mouseQueue' = posted /\ UNCHANGED keyboardQueue
                  ELSE keyboardQueue' = posted /\ UNCHANGED mouseQueue
    /\ UNCHANGED <<cfgVars, probe, engineVars, sessionState, jsPc, lastCall, teardown,
                   is_enabled_mouse_move_event, tsfnQueue, delivered>>

\* SelectionHook::ProcessKeyboardEvent for the oldest record of the keyboard
\* channel: the key event is emitted unless ShouldProcessGetSelection refuses
ProcessKeyboardEvent(E) ==
    /\ keyboardQueue # <<>>
    /\ keyboardQueue' = Tail(keyboardQueue)
    /\ \E elapsed \in E.deltas :
       \E userState \in (IF SPS_Cached(now + elapsed) THEN {TRUE} ELSE E.userStates) :
         /\ now' = now + elapsed
         /\ SPS_Update(now + elapsed, userState)
         /\ delivered' = IF ShouldProcessGetSelection(now + elapsed, userState)
                         THEN Received("keyboard-event", Head(keyboardQueue).seq)
                         ELSE delivered
    /\ UNCHANGED <<cfgVars, probe, sessionVars, gestureVars, sharedVars, clipboardVars,
                   ctxVars, outVars, countVars,
                   is_enabled_mouse_move_event, tsfnQueue, mouseQueue, observed>>

\* the callback ProcessMouseEvent queued in the selection channel: the oldest
\* selection result is handed to the consumer
SelectionCallback ==
    /\ tsfnQueue # <<>>
    /\ tsfnQueue' = Tail(tsfnQueue)
    /\ delivered' = Head(tsfnQueue)
    /\ UNCHANGED <<cfgVars, probe, engineVars, sessionVars,
                   is_enabled_mouse_move_event, mouseQueue, keyboardQueue, observed>>

\* SelectionHook::EnableMouseMoveEvent
EnableMouseMoveEvent ==
    /\ is_enabled_mouse_move_event' = TRUE
    /\ UNCHANGED <<cfgVars, probe, engineVars, sessionVars,
                   tsfnQueue, mouseQueue, keyboardQueue, observed, delivered>>

\* SelectionHook::DisableMouseMoveEvent
DisableMouseMoveEvent ==
    /\ is_enabled_mouse_move_event' = FALSE
    /\ UNCHANGED <<cfgVars, probe, engineVars, sessionVars,
                   tsfnQueue, mouseQueue, keyboardQueue, observed, delivered>>

\* the arguments tried on every call
CallInfos ==
    { <<>>,
      <<JsFunction>>,
      <<JsText>>,
      <<JsBoolean(TRUE)>>,
      <<JsNumber(1)>>,
      <<JsNumber(1), JsArray(<<JsStr(S_notepad)>>)>>,
      <<JsNumber(7), JsArray(<<>>)>>,
      <<JsText, JsArray(<<>>)>>,
      <<JsNumber(1), JsText>> }

InitSessionSpec == InitCfg /\ probe = NoProbe /\ InitEngine /\ InitSession

NextSession ==
    \/ \E info \in CallInfos, created \in BOOLEAN : Start(info, created)
    \/ \E info \in CallInfos : CallSetClipboardMode(info)
    \/ \E info \in CallInfos : CallSetGlobalFilterMode(info)
    \/ \E info \in CallInfos : CallSetFineTunedList(info)
    \/ \E info \in CallInfos : CallSetSelectionPassiveMode(info)
    \/ Stop
    \/ Destructor
    \/ TeardownSignal
    \/ TeardownJoin
    \/ TeardownRelease
    \/ \E n \in ThreadIds : ThreadProc_SetHooks(n)
    \/ \E n \in ThreadIds : ThreadProc_GetMessage(n)
    \/ \E n \in ThreadIds : ThreadProc_Release(n)
    \/ \E n \in ThreadIds : HookCallback(n, "mouse", "WM_LBUTTONDOWN")
    \/ \E n \in ThreadIds : HookCallback(n, "keyboard", "WM_KEYDOWN")

SpecSession == InitSessionSpec /\ [][NextSession]_vars

\* the hook thread runs when it can, and a teardown that began goes on
SpecSessionFair ==
    /\ InitSessionSpec
    /\ [][NextSession]_vars
    /\ WF_vars(\E n \in ThreadIds : ThreadProc_SetHooks(n))
    /\ WF_vars(\E n \in ThreadIds : ThreadProc_GetMessage(n))
    /\ WF_vars(\E n \in ThreadIds : ThreadProc_Release(n))
    /\ WF_vars(TeardownSignal)
    /\ WF_vars(TeardownJoin)
    /\ WF_vars(TeardownRelease)

InitFilter == InitCfg /\ probe = NoProbe /\ InitEngine /\ InitSession

\* probe describes an evaluation under the current settings: a change of the
\* settings forgets it
NextFilter ==
    \/ \E mode \in FilterModes, array \in FilterArrays :
          SetGlobalFilterMode(mode, array) /\ probe' = NoProbe /\ UNCHANGED <<engineVars, sessionVars, channelVars>>
    \/ \E mode \in FilterModes, array \in FilterArrays :
          SetClipboardMode(mode, array) /\ probe' = NoProbe /\ UNCHANGED <<engineVars, sessionVars, channelVars>>
    \/ EnableClipboard /\ probe' = NoProbe /\ UNCHANGED <<engineVars, sessionVars, channelVars>>
    \/ DisableClipboard /\ probe' = NoProbe /\ UNCHANGED <<engineVars, sessionVars, channelVars>>
    \/ \E programName \in ProgramNames : EvaluateFilters(TRUE, programName)
    \/ EvaluateFilters(FALSE, S_empty)

SpecFilter == InitFilter /\ [][NextFilter]_vars

-----------------------------------------------------------------------------
(* The extraction engine: gestures and getCurrentSelection calls start       *)
(* GetSelectedText in their two contexts, whose steps interleave.            *)

Idle == \A c \in Contexts : pc[c] = "idle"

\* the settings are made before the first event
Setup == Idle /\ nEvents = 0 /\ nCalls = 0

ExtractionEnv ==
    [fromChannel |-> FALSE,
     maxEvents |-> MaxEvents,
     events |-> {"WM_LBUTTONDOWN", "WM_LBUTTONUP"},
     points |-> {Point(0, 0)},
     deltas |-> {100},
     userStates |-> {TRUE},
     windows |-> {1},
     downRects |-> {Rect(0, 0, 100, 100)},
     rects |-> {Rect(0, 0, 100, 100)},
     keys |-> {Keys(TRUE, FALSE, FALSE)},
     cursors |-> {"IDC_IBEAM", "other"},
     programs |-> {[resolved |-> TRUE, programName |-> P_Notepad_exe],
                   [resolved |-> FALSE, programName |-> S_empty]},
     uia |-> {UiaSelected, UiaNothing, UiaThrows},
     focus |-> {[kind |-> "return", focused |-> FALSE, text |-> <<>>, rect |-> ZeroRect],
                [kind |-> "return", focused |-> TRUE, text |-> T_sel, rect |-> Rect(10, 10, 60, 30)]},
     accessible |-> {[kind |-> "ok", text |-> T_sel, posLevel |-> "Full", rect |-> Rect(10, 10, 15, 30)],
                     [kind |-> "fail", text |-> <<>>, posLevel |-> "None", rect |-> ZeroRect]},
     openOk |-> {TRUE},
     copyKeys |-> {NoKeyDown, AsyncKeys(TRUE, FALSE, FALSE, FALSE)},
     reactions |-> {[copies |-> FALSE, text |-> <<>>], [copies |-> TRUE, text |-> T_sel]}]

ExtractionArrays == { <<>>, <<JsStr(S_notepad)>> }

Init == InitCfg /\ probe = NoProbe /\ InitEngine /\ InitSession

Next ==
    \/ \E mode \in FilterModes, array \in ExtractionArrays :
          Setup /\ SetGlobalFilterMode(mode, array) /\ UNCHANGED <<probe, engineVars, sessionVars, channelVars>>
    \/ ProcessMouseEvent(ExtractionEnv)
    \/ GetCurrentSelection(ExtractionEnv)
    \/ \E c \in Contexts : CheckProcessing(c)
    \/ \E c \in Contexts : SetProcessing(c)
    \/ \E c \in Contexts : ApplyGlobalFilter(c)
    \/ \E c \in Contexts : GetTextViaUIAutomation(c, ExtractionEnv)
    \/ \E c \in Contexts : GetTextViaFocusedControl(c, ExtractionEnv)
    \/ \E c \in Contexts : GetTextViaAccessible(c, ExtractionEnv)
    \/ \E c \in Contexts : ClipboardGate(c)
    \/ \E c \in Contexts : ClipboardPreCheck(c, ExtractionEnv)
    \/ \E c \in Contexts : ClipboardKeyCheck(c, ExtractionEnv)
    \/ \E c \in Contexts : ClipboardSnapshot(c, ExtractionEnv)
    \/ \E c \in Contexts : ClipboardCtrlInsert(c, ExtractionEnv)
    \/ \E c \in Contexts : ClipboardCtrlInsertPoll(c, ExtractionEnv)
    \/ \E c \in Contexts : ClipboardCtrlC(c, ExtractionEnv)
    \/ \E c \in Contexts : ClipboardCtrlCPoll(c, ExtractionEnv)
    \/ \E c \in Contexts : ClipboardRead(c, ExtractionEnv)
    \/ DeliveryReturn
    \/ EmitMouseEvent
    \/ DeliveryUnwind
    \/ CallerReturn
    \/ CallerCatch

Spec == Init /\ [][Next]_vars

-----------------------------------------------------------------------------
(* The extraction engine with its two contexts on one thread: a gesture is   *)
(* delivered, or getCurrentSelection is called, only when no extraction is   *)
(* in progress.                                                              *)

SerialEnv ==
    [ExtractionEnv EXCEPT
       !.programs = {[resolved |-> TRUE, programName |-> P_Notepad_exe],
                     [resolved |-> TRUE, programName |-> P_Acrobat_exe],
                     [resolved |-> FALSE, programName |-> S_empty]},
       !.openOk = BOOLEAN]

InitSerial == InitCfg /\ probe = NoProbe /\ InitEngine /\ InitSession

NextSerial ==
    \/ \E mode \in FilterModes, array \in ExtractionArrays :
          Setup /\ SetGlobalFilterMode(mode, array) /\ UNCHANGED <<probe, engineVars, sessionVars, channelVars>>
    \/ \E value \in BOOLEAN :
          Setup /\ SetSelectionPassiveMode(value) /\ UNCHANGED <<probe, engineVars, sessionVars, channelVars>>
    \/ Idle /\ ProcessMouseEvent(SerialEnv)
    \/ Idle /\ GetCurrentSelection(SerialEnv)
    \/ \E c \in Contexts : CheckProcessing(c)
    \/ \E c \in Contexts : SetProcessing(c)
    \/ \E c \in Contexts : ApplyGlobalFilter(c)
    \/ \E c \in Contexts : GetTextViaUIAutomation(c, SerialEnv)
    \/ \E c \in Contexts : GetTextViaFocusedControl(c, SerialEnv)
    \/ \E c \in Contexts : GetTextViaAccessible(c, SerialEnv)
    \/ \E c \in Contexts : ClipboardGate(c)
    \/ \E c \in Contexts : ClipboardPreCheck(c, SerialEnv)
    \/ \E c \in Contexts : ClipboardKeyCheck(c, SerialEnv)
    \/ \E c \in Contexts : ClipboardSnapshot(c, SerialEnv)
    \/ \E c \in Contexts : ClipboardCtrlInsert(c, SerialEnv)
    \/ \E c \in Contexts : ClipboardCtrlInsertPoll(c, SerialEnv)
    \/ \E c \in Contexts : ClipboardCtrlC(c, SerialEnv)
    \/ \E c \in Contexts : ClipboardCtrlCPoll(c, SerialEnv)
    \/ \E c \in Contexts : ClipboardRead(c, SerialEnv)
    \/ DeliveryReturn
    \/ EmitMouseEvent
    \/ DeliveryUnwind
    \/ CallerReturn
    \/ CallerCatch

SpecSerial == InitSerial /\ [][NextSerial]_vars

-----------------------------------------------------------------------------
(* The gesture classifier: mouse events of every kind, at several distances  *)
(* and delays, over windows that stay, move or change; the extraction that a *)
(* gesture starts succeeds at its first strategy.                            *)

GestureEnv ==
    [fromChannel |-> FALSE,
     maxEvents |-> MaxGestureEvents,
     events |-> {"WM_LBUTTONDOWN", "WM_LBUTTONUP", "WM_MOUSEMOVE"},
     points |-> {Point(0, 0), Point(3, 0), Point(8, 0)},
     deltas |-> {500, 501, 8000, 8001},
     userStates |-> BOOLEAN,
     windows |-> {NULL, 1, 2},
     downRects |-> {Rect(0, 0, 100, 100)},
     rects |-> {Rect(0, 0, 100, 100), Rect(2, 0, 100, 100), Rect(0, 0, 100, 103)},
     keys |-> {Keys(FALSE, FALSE, FALSE), Keys(TRUE, FALSE, FALSE),
               Keys(TRUE, TRUE, FALSE), Keys(TRUE, FALSE, TRUE)},
     cursors |-> {"IDC_IBEAM"},
     programs |-> {[resolved |-> TRUE, programName |-> P_Notepad_exe]},
     uia |-> {UiaSelected}]

InitGesture == InitCfg /\ probe = NoProbe /\ InitEngine /\ InitSession

NextGesture ==
    \/ \E value \in BOOLEAN :
          /\ pc["delivery"] = "idle"
          /\ SetSelectionPassiveMode(value)
          /\ UNCHANGED <<probe, engineVars, sessionVars, channelVars>>
    \/ ProcessMouseEvent(GestureEnv)
    \/ CheckProcessing("delivery")
    \/ SetProcessing("delivery")
    \/ ApplyGlobalFilter("delivery")
    \/ GetTextViaUIAutomation("delivery", GestureEnv)
    \/ DeliveryReturn
    \/ EmitMouseEvent

SpecGesture == InitGesture /\ [][NextGesture]_vars

-----------------------------------------------------------------------------
(* Clicks: sequences of primary-button presses and releases near and far     *)
(* from each other, within and beyond the double-click time, with and        *)
(* without Shift, in one window that stays; the extraction that a gesture    *)
(* starts succeeds at its first strategy, with or without geometry.          *)

ClickEnv ==
    [fromChannel |-> FALSE,
     maxEvents |-> MaxClickEvents,
     events |-> {"WM_LBUTTONDOWN", "WM_LBUTTONUP"},
     points |-> {Point(0, 0), Point(3, 0), Point(4, 0), Point(8, 0)},
     deltas |-> {500, 501},
     userStates |-> {TRUE},
     windows |-> {1},
     downRects |-> {Rect(0, 0, 100, 100)},
     rects |-> {Rect(0, 0, 100, 100)},
     keys |-> {Keys(FALSE, FALSE, FALSE), Keys(TRUE, FALSE, FALSE)},
     cursors |-> {"IDC_IBEAM"},
     programs |-> {[resolved |-> TRUE, programName |-> P_Notepad_exe]},
     uia |-> {UiaSelected, UiaLegacy(T_sel)}]

InitClick == InitCfg /\ probe = NoProbe /\ InitEngine /\ InitSession

NextClick ==
    \/ ProcessMouseEvent(ClickEnv)
    \/ CheckProcessing("delivery")
    \/ SetProcessing("delivery")
    \/ ApplyGlobalFilter("delivery")
    \/ GetTextViaUIAutomation("delivery", ClickEnv)
    \/ DeliveryReturn
    \/ EmitMouseEvent

SpecClick == InitClick /\ [][NextClick]_vars

-----------------------------------------------------------------------------
(* Delivery: a session is started, the hooks observe mouse and keyboard      *)
(* inputs on the hook thread and post them, and the JavaScript thread, when  *)
(* it is idle, takes the oldest record of any channel that has one.  A drag  *)
(* starts an extraction, which runs through the whole chain.                 *)

DeliveryEnv ==
    [fromChannel |-> TRUE,
     maxEvents |-> MaxInputs,
     events |-> {},
     points |-> {Point(0, 0), Point(8, 0)},
     deltas |-> {100},
     userStates |-> {TRUE},
     windows |-> {1},
     downRects |-> {Rect(0, 0, 100, 100)},
     rects |-> {Rect(0, 0, 100, 100)},
     keys |-> {Keys(FALSE, FALSE, FALSE)},
     cursors |-> {"IDC_IBEAM"},
     programs |-> {[resolved |-> TRUE, programName |-> P_Notepad_exe]},
     uia |-> {UiaSelected, UiaNothing},
     focus |-> {[kind |-> "return", focused |-> FALSE, text |-> <<>>, rect |-> ZeroRect]},
     accessible |-> {[kind |-> "fail", text |-> <<>>, posLevel |-> "None", rect |-> ZeroRect]},
     openOk |-> {TRUE},
     copyKeys |-> {NoKeyDown},
     reactions |-> {[copies |-> FALSE, text |-> <<>>], [copies |-> TRUE, text |-> T_sel]}]

NextDelivery ==
    \/ ~running /\ Start(<<JsFunction>>, TRUE)
    \/ \E n \in ThreadIds : ThreadProc_SetHooks(n)
    \/ Idle /\ EnableMouseMoveEvent
    \/ Idle /\ DisableMouseMoveEvent
    \/ \E n \in ThreadIds, event \in {"WM_LBUTTONDOWN", "WM_LBUTTONUP", "WM_MOUSEMOVE"} :
          HookCallback(n, "mouse", event)
    \/ \E n \in ThreadIds : HookCallback(n, "keyboard", "WM_KEYDOWN")
    \/ Idle /\ ProcessMouseEvent(DeliveryEnv)
    \/ Idle /\ ProcessKeyboardEvent(DeliveryEnv)
    \/ Idle /\ SelectionCallback
    \/ CheckProcessing("delivery")
    \/ SetProcessing("delivery")
    \/ ApplyGlobalFilter("delivery")
    \/ GetTextViaUIAutomation("delivery", DeliveryEnv)
    \/ GetTextViaFocusedControl("delivery", DeliveryEnv)
    \/ GetTextViaAccessible("delivery", DeliveryEnv)
    \/ ClipboardGate("delivery")
    \/ ClipboardPreCheck("delivery", DeliveryEnv)
    \/ ClipboardKeyCheck("delivery", DeliveryEnv)
    \/ ClipboardSnapshot("delivery", DeliveryEnv)
    \/ ClipboardCtrlInsert("delivery", DeliveryEnv)
    \/ ClipboardCtrlInsertPoll("delivery", DeliveryEnv)
    \/ ClipboardCtrlC("delivery", DeliveryEnv)
    \/ ClipboardCtrlCPoll("delivery", DeliveryEnv)
    \/ ClipboardRead("delivery", DeliveryEnv)
    \/ DeliveryReturn
    \/ EmitMouseEvent

SpecDelivery == Init /\ [][NextDelivery]_vars

-----------------------------------------------------------------------------
(* A session that is stopped and started again, with the mouse hook feeding  *)
(* the classifier in both sessions.  Stop runs on the JavaScript thread, so  *)
(* no event is processed while it is under way.                              *)

RestartEnv == [DeliveryEnv EXCEPT !.uia = {UiaSelected}]

NextRestart ==
    \/ ~running /\ Idle /\ Start(<<JsFunction>>, TRUE)
    \/ running /\ Idle /\ Stop
    \/ TeardownSignal
    \/ TeardownJoin
    \/ TeardownRelease
    \/ \E n \in ThreadIds : ThreadProc_SetHooks(n)
    \/ \E n \in ThreadIds : ThreadProc_GetMessage(n)
    \/ \E n \in ThreadIds : ThreadProc_Release(n)
    \/ \E n \in ThreadIds, event \in {"WM_LBUTTONDOWN", "WM_LBUTTONUP"} :
          HookCallback(n, "mouse", event)
    \/ jsPc = "idle" /\ ProcessMouseEvent(RestartEnv)
    \/ CheckProcessing("delivery")
    \/ SetProcessing("delivery")
    \/ ApplyGlobalFilter("delivery")
    \/ GetTextViaUIAutomation("delivery", RestartEnv)
    \/ DeliveryReturn
    \/ EmitMouseEvent

SpecRestart == Init /\ [][NextRestart]_vars

-----------------------------------------------------------------------------
(* The clipboard fallback: the three accessibility strategies find nothing,  *)
(* so that every extraction comes to ShouldProcessViaClipboard, with every   *)
(* cursor, control type and tuning list, and goes on into                    *)
(* GetTextViaClipboard with keys held or not at each reading, a clipboard    *)
(* that opens or not, and an application that copies or not.  Every          *)
(* mouse-up is a shift-click.                                                *)

\* a focused document in which nothing is selected
UiaFocusedDocument == [UiaNothing EXCEPT !.focused = TRUE, !.controlType = "Document"]

ClipboardEnv ==
    [fromChannel |-> FALSE,
     maxEvents |-> MaxEvents,
     events |-> {"WM_LBUTTONDOWN", "WM_LBUTTONUP"},
     points |-> {Point(0, 0)},
     deltas |-> {100},
     userStates |-> {TRUE},
     windows |-> {1},
     downRects |-> {Rect(0, 0, 100, 100)},
     rects |-> {Rect(0, 0, 100, 100)},
     keys |-> {Keys(TRUE, FALSE, FALSE)},
     cursors |-> {"IDC_IBEAM", "IDC_ARROW", "other"},
     programs |-> {[resolved |-> TRUE, programName |-> P_Notepad_exe],
                   [resolved |-> TRUE, programName |-> P_Acrobat_exe]},
     uia |-> {UiaNothing, UiaFocusedDocument},
     focus |-> {[kind |-> "return", focused |-> FALSE, text |-> <<>>, rect |-> ZeroRect]},
     accessible |-> {[kind |-> "fail", text |-> <<>>, posLevel |-> "None", rect |-> ZeroRect]},
     openOk |-> BOOLEAN,
     copyKeys |-> {NoKeyDown, AsyncKeys(TRUE, FALSE, FALSE, FALSE),
                   AsyncKeys(FALSE, FALSE, FALSE, TRUE), AsyncKeys(TRUE, TRUE, FALSE, FALSE)},
     reactions |-> {[copies |-> FALSE, text |-> <<>>], [copies |-> TRUE, text |-> T_sel]}]

ClipboardArrays == { <<>>, <<JsStr(S_acrobat)>> }

NextClipboard ==
    \/ \E listType \in {ExcludeClipboardCursorDetect, IncludeClipboardDelayRead},
          array \in ClipboardArrays :
          Setup /\ SetFineTunedList(listType, array)
                /\ UNCHANGED <<probe, engineVars, sessionVars, channelVars>>
    \/ \E mode \in FilterModes, array \in ClipboardArrays :
          Setup /\ SetClipboardMode(mode, array)
                /\ UNCHANGED <<probe, engineVars, sessionVars, channelVars>>
    \/ Idle /\ ProcessMouseEvent(ClipboardEnv)
    \/ Idle /\ GetCurrentSelection(ClipboardEnv)
    \/ \E c \in Contexts : CheckProcessing(c)
    \/ \E c \in Contexts : SetProcessing(c)
    \/ \E c \in Contexts : ApplyGlobalFilter(c)
    \/ \E c \in Contexts : GetTextViaUIAutomation(c, ClipboardEnv)
    \/ \E c \in Contexts : GetTextViaFocusedControl(c, ClipboardEnv)
    \/ \E c \in Contexts : GetTextViaAccessible(c, ClipboardEnv)
    \/ \E c \in Contexts : ClipboardGate(c)
    \/ \E c \in Contexts : ClipboardPreCheck(c, ClipboardEnv)
    \/ \E c \in Contexts : ClipboardKeyCheck(c, ClipboardEnv)
    \/ \E c \in Contexts : ClipboardSnapshot(c, ClipboardEnv)
    \/ \E c \in Contexts : ClipboardCtrlInsert(c, ClipboardEnv)
    \/ \E c \in Contexts : ClipboardCtrlInsertPoll(c, ClipboardEnv)
    \/ \E c \in Contexts : ClipboardCtrlC(c, ClipboardEnv)
    \/ \E c \in Contexts : ClipboardCtrlCPoll(c, ClipboardEnv)
    \/ \E c \in Contexts : ClipboardRead(c, ClipboardEnv)
    \/ DeliveryReturn
    \/ EmitMouseEvent
    \/ CallerReturn

SpecClipboard == Init /\ [][NextClipboard]_vars

-----------------------------------------------------------------------------
(* SetTextRangeCoordinates on its own, applied to a new record for every     *)
(* array of at most MaxRects bounding rectangles; probe keeps the range and  *)
(* what the function made of it.                                             *)

MaxRects == 2

\* rectangles at 10 and 10.5 px, 1, 1.5 and 5 px wide, 20, 99.5, 100 and
\* 100.5 px high
RectChoices ==
    {Bounds(x, 20, width, height) :
        x \in {20, 21}, width \in {2, 3, 10}, height \in {40, 199, 200, 201}}

RECURSIVE RectArrays(_)
RectArrays(n) ==
    IF n = 0 THEN {<<>>}
    ELSE RectArrays(n - 1) \cup
         {Append(rects, r) : rects \in {a \in RectArrays(n - 1) : Len(a) = n - 1},
                             r \in RectChoices}

\* the call SetTextRangeCoordinates(pRange, selectionInfo) on a new record,
\* made once
EvaluateCoordinates(range) ==
    /\ ~probe.done
    /\ probe' = [done |-> TRUE, range |-> range,
                 coords |-> SetTextRangeCoordinates(range, NewSelectionInfo)]
    /\ UNCHANGED <<cfgVars, sessionVars, channelVars, engineVars>>

NextGeometry ==
    \E bounds \in BOOLEAN, rects \in RectArrays(MaxRects) :
       EvaluateCoordinates([text |-> T_sel, rects |-> rects, bounds |-> bounds,
                            active |-> TRUE])

SpecGeometry == Init /\ [][NextGeometry]_vars

-----------------------------------------------------------------------------
(* The strategy chain over what the accessibility interfaces can answer: a    *)
(* range with or without an accepted rectangle, a text of white space, a     *)
(* control that has the focus but no selection, with the clipboard fallback  *)
(* switched on and off between the extractions.                              *)

\* a selection whose only rectangle is one pixel wide
UiaCaretWide == UiaSelection(T_sel, <<Bounds(20, 20, 2, 40)>>)

\* a selection of white space
UiaBlank == UiaSelection(T_blank, <<Bounds(20, 20, 10, 40)>>)

ChainEnv ==
    [SerialEnv EXCEPT
       !.programs = {[resolved |-> TRUE, programName |-> P_Notepad_exe]},
       !.uia = {UiaSelected, UiaNothing, UiaCaretWide, UiaBlank, UiaLegacy(T_sel)},
       !.focus = {[kind |-> "return", focused |-> FALSE, text |-> <<>>, rect |-> ZeroRect],
                  [kind |-> "return", focused |-> TRUE, text |-> <<>>,
                   rect |-> Rect(10, 10, 60, 30)],
                  [kind |-> "return", focused |-> TRUE, text |-> T_sel,
                   rect |-> Rect(10, 10, 60, 30)]},
       !.accessible = {[kind |-> "ok", text |-> T_sel, posLevel |-> "Full",
                        rect |-> Rect(10, 10, 15, 30)],
                       [kind |-> "ok", text |-> T_sel, posLevel |-> "None", rect |-> ZeroRect],
                       [kind |-> "fail", text |-> <<>>, posLevel |-> "None", rect |-> ZeroRect]},
       !.openOk = {TRUE}]

NextChain ==
    \/ Idle /\ EnableClipboard /\ UNCHANGED <<probe, engineVars, sessionVars, channelVars>>
    \/ Idle /\ DisableClipboard /\ UNCHANGED <<probe, engineVars, sessionVars, channelVars>>
    \/ Idle /\ ProcessMouseEvent(ChainEnv)
    \/ Idle /\ GetCurrentSelection(ChainEnv)
    \/ \E c \in Contexts : CheckProcessing(c)
    \/ \E c \in Contexts : SetProcessing(c)
    \/ \E c \in Contexts : ApplyGlobalFilter(c)
    \/ \E c \in Contexts : GetTextViaUIAutomation(c, ChainEnv)
    \/ \E c \in Contexts : GetTextViaFocusedControl(c, ChainEnv)
    \/ \E c \in Contexts : GetTextViaAccessible(c, ChainEnv)
    \/ \E c \in Contexts : ClipboardGate(c)
    \/ \E c \in Contexts : ClipboardPreCheck(c, ChainEnv)
    \/ \E c \in Contexts : ClipboardKeyCheck(c, ChainEnv)
    \/ \E c \in Contexts : ClipboardSnapshot(c, ChainEnv)
    \/ \E c \in Contexts : ClipboardCtrlInsert(c, ChainEnv)
    \/ \E c \in Contexts : ClipboardCtrlInsertPoll(c, ChainEnv)
    \/ \E c \in Contexts : ClipboardCtrlC(c, ChainEnv)
    \/ \E c \in Contexts : ClipboardCtrlCPoll(c, ChainEnv)
    \/ \E c \in Contexts : ClipboardRead(c, ChainEnv)
    \/ DeliveryReturn
    \/ EmitMouseEvent
    \/ CallerReturn

SpecChain == Init /\ [][NextChain]_vars

-----------------------------------------------------------------------------
(* Properties of the filter lists *)

\* Lower-casing of a text, unit by unit
LowerText(s) == [i \in 1..Len(s) |-> IF s[i] \in 65..90 THEN s[i] + 32 ELSE s[i]]

\* e occurs in p as a contiguous run of units
OccursIn(e, p) == \E i \in 1..(Len(p) - Len(e) + 1) : SubSeq(p, i, i + Len(e) - 1) = e

\* Some string entry of the array, lower-cased, occurs in the lower-cased name
SomeEntryOccurs(array, programName) ==
    \E i \in 1..Len(array) :
        array[i].isString /\ OccursIn(LowerText(array[i].s), LowerText(programName))

\* C6: for every program name and every list set through setGlobalFilterMode,
\* IsInFilterList is true exactly when some entry of the list, lower-cased, occurs
\* as a contiguous substring of the lower-cased program name.
C6_MembershipIsCaseInsensitiveSubstring ==
    probe.done =>
        (probe.isInGlobal <=> SomeEntryOccurs(rawGlobalArray, probe.programName))

\* C6 witness: the upper-case entry "NOTEPAD" matches "Notepad.exe"
C6_Witness ==
    /\ probe.done
    /\ rawGlobalArray = <<JsStr(S_NOTEPAD)>>
    /\ probe.programName = P_Notepad_exe
    /\ probe.isInGlobal

C7_Setting ==
    /\ probe.done
    /\ is_enabled_clipboard
    /\ clipboard_filter_mode = FilterMode_IncludeList
    /\ rawClipboardArray = <<JsStr(S_acrobat)>>

\* C7 as stated: with clipboard mode IncludeList and list ["acrobat"], the clipboard
\* filter stage makes "AcroRd32.exe" eligible and "notepad.exe" not eligible.
C7_AsStated ==
    C7_Setting =>
        /\ (probe.programName = P_AcroRd32_exe => probe.clipboardStage)
        /\ (probe.programName = P_notepad_exe => ~probe.clipboardStage)

\* C7 amended: with clipboard mode IncludeList and list ["acrobat"], the clipboard
\* filter stage makes "Acrobat.exe" eligible, and neither "AcroRd32.exe" (which does
\* not contain "acrobat") nor "notepad.exe" is eligible.
C7_AcrobatScenario ==
    C7_Setting =>
        /\ (probe.programName = P_Acrobat_exe => probe.clipboardStage)
        /\ (probe.programName = P_AcroRd32_exe => ~probe.clipboardStage)
        /\ (probe.programName = P_notepad_exe => ~probe.clipboardStage)

\* C7 witness: the stage was evaluated for "AcroRd32.exe" in the scenario's setting
C7_Witness == C7_Setting /\ probe.programName = P_AcroRd32_exe

\* C8 as stated: with an empty global list no resolved program is rejected by
\* the global filter in IncludeList or ExcludeList mode, and with an empty
\* clipboard list the clipboard filter stage rejects no program in either mode
C8_AsStated ==
    probe.done =>
        /\ (rawGlobalArray = <<>> /\ probe.resolved /\
            global_filter_mode \in {FilterMode_IncludeList, FilterMode_ExcludeList})
              => probe.admitted
        /\ (rawClipboardArray = <<>> /\ is_enabled_clipboard /\
            clipboard_filter_mode \in {FilterMode_IncludeList, FilterMode_ExcludeList})
              => probe.clipboardStage

-----------------------------------------------------------------------------
(* Properties of the extraction engine *)

\* GetSelectedText has returned in context c
Returned(c) == pc[c] = "gst_ret"

\* C1 as stated: when GetTextViaClipboard returns after it took a non-empty
\* snapshot of the clipboard text, the clipboard text equals that snapshot, on
\* every exit path
C1_AsStated ==
    \A c \in Contexts :
        Returned(c) /\ clip[c].returned /\ clip[c].snapshot /\ clip[c].existingContent # <<>>
            => clip[c].atReturn = clip[c].existingContent

C3_AsStated == is_processing => \E c \in Contexts : pc[c] \in GuardedSteps

StrategyOrder == <<"UIA", "FocusControl", "Accessible", "Clipboard">>

\* C4: when GetSelectedText returns, the strategies it called are an initial
\* part of UIA, FocusControl, Accessible, Clipboard, each but the last called
\* one returned false, the call returns true exactly when the last called one
\* returned true, the method is then that strategy, and otherwise None
C4_ChainOrder ==
    \A c \in Contexts :
        Returned(c) =>
            LET called == invoked[c]
                n == Len(called)
            IN /\ n <= 4
               /\ \A i \in 1..n : called[i].strategy = StrategyOrder[i]
               /\ \A i \in 1..(n - 1) : ~called[i].result
               /\ ret[c] <=> (n > 0 /\ called[n].result)
               /\ ret[c] => sel[c].method = called[n].strategy
               /\ ~ret[c] => sel[c].method = "None"
               /\ ~ret[c] /\ n > 0 => n >= 3

C4_Witness ==
    \E c \in Contexts :
        /\ Returned(c)
        /\ ret[c]
        /\ Len(invoked[c]) = 4
        /\ sel[c].method = "Clipboard"

\* what C5 says of the global filter, on the array handed to setGlobalFilterMode
C5_Admits(c) ==
    LET matches == window[c].resolved /\ SomeEntryOccurs(rawGlobalArray, window[c].programName)
    IN \/ global_filter_mode = FilterMode_Default
       \/ global_filter_mode = FilterMode_IncludeList /\ matches
       \/ global_filter_mode = FilterMode_ExcludeList /\ ~matches

\* C5: an invocation that set the guard reaches the strategies if and only if
\* the global filter admits the program of its window (Default: always;
\* IncludeList: resolved and matching; ExcludeList: not matching, an unresolved
\* program being admitted); when not admitted no strategy runs and it fails
C5_GlobalFilter ==
    \A c \in Contexts :
        /\ pc[c] \in GuardedSteps \ {"gst_filter"} => C5_Admits(c)
        /\ Returned(c) /\ entered[c] =>
              /\ invoked[c] # <<>> <=> C5_Admits(c)
              /\ ~C5_Admits(c) => ~ret[c]

C5_Witness ==
    \E c \in Contexts :
        /\ Returned(c)
        /\ entered[c]
        /\ global_filter_mode = FilterMode_ExcludeList
        /\ rawGlobalArray # <<>>
        /\ ~window[c].resolved
        /\ invoked[c] # <<>>

-----------------------------------------------------------------------------
(* Properties of the gesture classifier *)

\* the last event was a primary-button-up that reached the classifier
ClassifiedUp == lastEvt.event = "WM_LBUTTONUP" /\ lastEvt.processed

\* time from the recorded mouse-down to the mouse-up just classified
UpElapsed == lastMouseUpTime - lastMouseDownTime

\* squared distance from the recorded mouse-down to the mouse-up just classified
UpDistanceSquared ==
    (lastMouseUpPos.x - lastMouseDownPos.x) * (lastMouseUpPos.x - lastMouseDownPos.x) +
    (lastMouseUpPos.y - lastMouseDownPos.y) * (lastMouseUpPos.y - lastMouseDownPos.y)

EdgeStable(a, b) == a - b <= 2 /\ b - a <= 2

DragConditions ==
    /\ ~lastEvt.passive
    /\ UpElapsed <= 8000
    /\ UpDistanceSquared >= 64
    /\ lastEvt.hwnd # NULL
    /\ lastEvt.hwnd = lastWindowHandler
    /\ EdgeStable(lastEvt.rect.left, lastWindowRect.left)
    /\ EdgeStable(lastEvt.rect.top, lastWindowRect.top)
    /\ EdgeStable(lastEvt.rect.right, lastWindowRect.right)
    /\ EdgeStable(lastEvt.rect.bottom, lastWindowRect.bottom)

\* C9: a primary-button-up that reaches the classifier is classified as a drag
\* if and only if passive mode is off, at most 8000 ms passed since the recorded
\* mouse-down, the up position is at least 8 px from the down position, the
\* window under the cursor is non-null and the one recorded at mouse-down, and
\* none of its four edges is more than 2 px from the recorded rectangle
C9_DragIffConditions ==
    ClassifiedUp => (lastEvt.detectionType = "Drag" <=> DragConditions)

C9_Witness ==
    /\ ClassifiedUp
    /\ lastEvt.detectionType = "Drag"
    /\ UpElapsed = 8000
    /\ lastEvt.rect.left = lastWindowRect.left + 2

ShiftAlone == lastEvt.keys.shift /\ ~lastEvt.keys.ctrl /\ ~lastEvt.keys.alt

-----------------------------------------------------------------------------
(* Properties of clicks *)

\* the last event was a primary-button-up classified as a double-click
DoubleClicked == ClassifiedUp /\ lastEvt.detectionType = "DoubleClick"

\* squared distance from the previous mouse-up to the mouse-up just classified
PrevUpDistanceSquared ==
    (lastEvt.pos.x - lastEvt.prevUpPos.x) * (lastEvt.pos.x - lastEvt.prevUpPos.x) +
    (lastEvt.pos.y - lastEvt.prevUpPos.y) * (lastEvt.pos.y - lastEvt.prevUpPos.y)

\* time from the previous mouse-up to the mouse-up just classified
UpToUp == lastMouseUpTime - lastEvt.prevUpTime

\* time from the previous mouse-up to the recorded mouse-down
UpToDown == lastMouseDownTime - lastEvt.prevUpTime

DoubleClickConditions ==
    /\ lastEvt.prevValid
    /\ UpElapsed >= 0 /\ UpElapsed <= 500
    /\ UpDistanceSquared <= 9
    /\ PrevUpDistanceSquared <= 9
    /\ UpToDown >= 0 /\ UpToDown <= 500

C12_AsStated ==
    /\ ClassifiedUp /\ ~lastEvt.passive
    /\ UpDistanceSquared <= 9
    /\ lastEvt.prevUpKind \in {"none", "Drag", "passive"}
    => lastEvt.detectionType # "DoubleClick"

\* a text-selection event was queued for the gesture of the last mouse-up
Delivered == pc["delivery"] = "pme_emit" /\ lastEvt.selection

C14_PositionLevel ==
    Delivered =>
        /\ sel["delivery"].posLevel # "None"
        /\ lastEvt.strategyPosLevel = "None" =>
              sel["delivery"].posLevel =
                  IF lastEvt.detectionType = "DoubleClick" THEN "MouseSingle" ELSE "MouseDual"
        /\ lastEvt.strategyPosLevel = "Full" => sel["delivery"].posLevel = "Full"

\* C14 witness: a delivered double-click without geometry from the strategy
C14_Witness ==
    /\ Delivered
    /\ lastEvt.detectionType = "DoubleClick"
    /\ lastEvt.strategyPosLevel = "None"
    /\ sel["delivery"].posLevel = "MouseSingle"

\* C15: a mouse event processed while passive mode is on classifies no gesture,
\* starts no GetSelectedText and queues no text-selection event, and the mouse
\* event itself is still emitted; getCurrentSelection still returns selections
C15_PassiveMode ==
    lastEvt.processed /\ lastEvt.passive =>
        /\ lastEvt.detectionType = "None"
        /\ ~lastEvt.extraction
        /\ ~lastEvt.selection
        /\ lastEvt.emitted
        /\ pc["delivery"] = "idle"

\* C15 witness: in passive mode a primary-button-up with Shift held was
\* processed, and getCurrentSelection returned a selection
C15_Witness ==
    /\ is_selection_passive_mode
    /\ lastEvt.processed /\ lastEvt.passive
    /\ lastEvt.event = "WM_LBUTTONUP"
    /\ callerResult = "selection"

-----------------------------------------------------------------------------
(* Properties of the session *)

\* a call whose arguments, or whose timing, the control surface must reject
InvalidCall(call) ==
    \/ /\ call.method = "start"
       /\ (call.wasRunning \/ Len(call.info) < 1 \/ call.info[1].type # "function")
    \/ /\ call.method \in {"setClipboardMode", "setGlobalFilterMode", "setFineTunedList"}
       /\ (Len(call.info) < 2 \/ call.info[1].type # "number" \/ call.info[2].type # "array")
    \/ /\ call.method = "setFineTunedList"
       /\ Len(call.info) >= 2
       /\ call.info[1].type = "number"
       /\ call.info[1].n \notin {0, 1}
    \/ /\ call.method = "setSelectionPassiveMode"
       /\ (Len(call.info) < 1 \/ call.info[1].type # "boolean")

C17_AsStated ==
    /\ teardown.op # "none" /\ "released" \in {tsfn, mouse_tsfn, keyboard_tsfn}
          => teardown.signalled /\ teardown.joined
    /\ lastPost.state # "released"

\* C18 as stated: once Stop or the destructor has asked a hook thread to stop,
\* the thread eventually has both hooks removed and has left its message loop
C18_AsStated ==
    \A n \in ThreadIds :
        hookThreads[n].stopRequested ~>
            (/\ hookThreads[n].pc = "exited"
             /\ ~hookThreads[n].mouseHook
             /\ ~hookThreads[n].keyboardHook)

\* the latest call was a start that failed to create the hook thread
FailedStart ==
    /\ lastCall.method = "start"
    /\ lastCall.error = "Failed to create mouse keyboard hook thread"

\* C19: after a start that failed to create the hook thread, an error was
\* thrown, the three channels are released, both running flags are false, no
\* thread handle is kept, and start is accepted again
C19_ThreadCreationRollback ==
    FailedStart =>
        /\ tsfn = "released"
        /\ mouse_tsfn = "released"
        /\ keyboard_tsfn = "released"
        /\ ~running
        /\ ~mouse_keyboard_running
        /\ mouse_keyboard_hook_thread = NULL
        /\ \A n \in ThreadIds : hookThreads[n].pc \in {"unborn", "exited"}
                                \/ hookThreads[n].stopRequested
        /\ jsPc = "idle" => StartError(<<JsFunction>>) = "none"

\* C19 witness: the start that failed came after an earlier session
C19_Witness ==
    /\ FailedStart
    /\ hookThreads[1].pc # "unborn"

\* C20 as stated: when a hook could not be installed, start threw an error and
\* the session is not marked running with that hook thread and the channels held
C20_AsStated ==
    \A n \in ThreadIds :
        hookThreads[n].installFailed /\ hookThreads[n].pc = "pump" =>
            ~(/\ running
              /\ mouse_keyboard_hook_thread = n
              /\ tsfn = "held"
              /\ mouse_tsfn = "held"
              /\ keyboard_tsfn = "held")

-----------------------------------------------------------------------------
(* Properties of the delivery *)

RawTypes == {"mouse-event", "keyboard-event"}

\* the numbers of the inputs whose records wait in the mouse and keyboard channels
QueuedInputs ==
    {mouseQueue[i].seq : i \in 1..Len(mouseQueue)} \cup
    {keyboardQueue[i].seq : i \in 1..Len(keyboardQueue)}

\* C21: a hook callback posts the event to its channel exactly when no
\* extraction is in progress and, for a mouse event, it is not a mouse-move or
\* mouse-moves are reported; it always hands the event on to the next hook; and
\* an event it observed while an extraction was in progress is in no channel
\* and is not what the consumer received
C21_HookForwarding ==
    lastPost.channel # "none" =>
        /\ lastPost.forwarded <=>
               /\ ~lastPost.processing
               /\ lastPost.channel = "mouse" =>
                      lastPost.event # "WM_MOUSEMOVE" \/ lastPost.moveEnabled
        /\ lastPost.passedOn
        /\ lastPost.processing =>
               /\ lastPost.seq \notin QueuedInputs
               /\ ~(delivered.type \in RawTypes /\ delivered.seq = lastPost.seq)

\* C21 witness: the keyboard hook observed a key while the clipboard strategy,
\* having sent a copy shortcut, was in progress, and did not post it
C21_Witness ==
    /\ lastPost.channel = "keyboard"
    /\ lastPost.processing
    /\ ~lastPost.forwarded
    /\ lastPost.passedOn
    /\ clip["delivery"].sentCopy
    /\ is_processing

\* C22: at most one selection result waits in the selection channel, and the
\* mouse and keyboard channels hold at most 512 and 128 records
C22_AsStated ==
    /\ Len(tsfnQueue) <= 1
    /\ Len(mouseQueue) <= 512
    /\ Len(keyboardQueue) <= 128

\* the place of a received record in the order of the inputs: a text selection
\* comes right after the mouse-up that caused it
DeliveryRank(record) == 2 * record.seq + (IF record.type = "text-selection" THEN 1 ELSE 0)

\* C23: the consumer receives the records in the order in which the hooks
\* observed the inputs, mouse and keyboard alike, and a text selection after
\* the mouse-up that caused it and before every input observed later
C23_AsStated ==
    [][delivered' # delivered => DeliveryRank(delivered') >= DeliveryRank(delivered)]_vars

-----------------------------------------------------------------------------
(* Properties of the strategy chain and of the result record *)

\* the record of context c goes to the consumer: queued for the callback by
\* ProcessMouseEvent, or handed back by getCurrentSelection in this step
GoesOut(c) ==
    IF c = "delivery"
    THEN pc[c] = "gst_ret" /\ pc'[c] = "pme_emit" /\ lastEvt'.selection
    ELSE pc[c] = "gst_ret" /\ callerResult' = "selection"

\* C24 as stated: whenever GetSelectedText has returned with method None the
\* text of the record is empty and the record does not go to the consumer; and
\* every record that goes to the consumer, delivered or returned by
\* getCurrentSelection, has a method other than None and a text that is not
\* empty after trimming
C24_AsStated ==
    /\ [](\A c \in Contexts : Returned(c) /\ sel[c].method = "None" => sel[c].text = <<>>)
    /\ [][\A c \in Contexts :
             /\ Returned(c) /\ sel[c].method = "None" => ~GoesOut(c)
             /\ GoesOut(c) => sel[c].method # "None" /\ ~IsTrimmedEmpty(sel[c].text)]_vars

\* the record that goes out of context c in a step where GoesOut(c) holds:
\* ProcessMouseEvent queues it after the switch on the detection type
Outgoing(c) == IF c = "delivery" THEN sel'[c] ELSE sel[c]

\* C25 as stated: in every record that goes to the consumer, delivered or
\* returned by getCurrentSelection, a position level None implies that the four
\* corner points startTop, startBottom, endTop and endBottom are zero
C25_AsStated ==
    [][\A c \in Contexts :
         GoesOut(c) /\ Outgoing(c).posLevel = "None" =>
             /\ Outgoing(c).startTop = ZeroPoint
             /\ Outgoing(c).startBottom = ZeroPoint
             /\ Outgoing(c).endTop = ZeroPoint
             /\ Outgoing(c).endBottom = ZeroPoint]_vars

\* the positions of a context inside GetTextViaClipboard
ClipboardSteps ==
    {"clip_enter", "clip_poll", "clip_snapshot", "clip_insert", "clip_insert_poll",
     "clip_c", "clip_c_poll", "clip_read"}

\* C26: while the clipboard fallback is disabled no extraction, started by a
\* gesture or by getCurrentSelection, is inside GetTextViaClipboard, has taken
\* a snapshot of the clipboard or sent a copy shortcut, or has tried or stamped
\* the method Clipboard, and no step changes the text or the sequence number of
\* the system clipboard
C26_ClipboardDisabled ==
    /\ [](~is_enabled_clipboard =>
            \A c \in Contexts :
               /\ pc[c] \notin ClipboardSteps
               /\ ~clip[c].snapshot /\ clip[c].sent = <<>> /\ ~clip[c].returned
               /\ \A i \in 1..Len(invoked[c]) : invoked[c][i].strategy # "Clipboard"
               /\ sel[c].method # "Clipboard")
    /\ [][~is_enabled_clipboard => clipboard' = clipboard /\ clipSeq' = clipSeq]_vars

\* C26 witness: with the fallback disabled, an extraction started by a gesture
\* has tried the three accessibility strategies in vain and has returned false
\* at the clipboard gate
C26_Witness ==
    /\ ~is_enabled_clipboard
    /\ Returned("delivery") /\ ~ret["delivery"]
    /\ Len(invoked["delivery"]) = 3
    /\ invoked["delivery"][3].strategy = "Accessible"

\* the strategy chain of context c has stopped at a strategy that returned true
StoppedAtStrategy(c) ==
    Returned(c) /\ invoked[c] # <<>> /\ invoked[c][Len(invoked[c])].result

\* C28 as stated: the chain stops only at a strategy whose text is not empty
\* after trimming white space; after a strategy whose text is empty or white
\* space only, the next strategy is tried
C28_AsStated ==
    \A c \in Contexts : StoppedAtStrategy(c) => ~IsTrimmedEmpty(sel[c].text)

\* GetTextViaUIAutomation returns in context c in this step, having read a
\* non-empty text from a range and having found no rectangle to take the
\* coordinates from
TextWithoutRectangle(c) ==
    /\ pc[c] = "gst_uia" /\ pc'[c] \in {"gst_focus", "gst_ret"}
    /\ sel'[c].text # <<>>
    /\ sel'[c].posLevel = "None"

\* C29 as stated: when the structured accessibility strategy has read a
\* non-empty text and none of the bounding rectangles is valid, the strategy
\* succeeds all the same: GetSelectedText returns that text with method UIA
\* and position level None
C29_AsStated ==
    [][\A c \in Contexts :
          TextWithoutRectangle(c) =>
              /\ pc'[c] = "gst_ret" /\ ret'[c]
              /\ sel'[c].method = "UIA"
              /\ sel'[c].posLevel = "None"]_vars

-----------------------------------------------------------------------------
(* Properties of the retained gesture state *)

\* stop() has returned on a session that was running
SessionStopped ==
    ~running /\ jsPc = "idle" /\ lastCall.method = "stop" /\ lastCall.wasRunning

\* C27 as stated: the retained gesture state is cleared at session stop; when
\* stop() returns, the last mouse-down time, position, window and
\* rectangle, the last and the second-to-last mouse-up position, the last
\* mouse-up time and the click-validity flag hold the values of a new instance,
\* so that nothing of the session that ended reaches the classification of
\* the events of the next session
C27_AsStated ==
    [][~SessionStopped /\ SessionStopped' =>
          /\ lastMouseDownTime' = 0
          /\ lastMouseDownPos' = ZeroPoint
          /\ lastWindowHandler' = NULL
          /\ lastWindowRect' = ZeroRect
          /\ lastMouseUpPos' = ZeroPoint
          /\ lastLastMouseUpPos' = ZeroPoint
          /\ lastMouseUpTime' = 0
          /\ ~isLastValidClick']_vars

-----------------------------------------------------------------------------
(* Properties of the geometry extraction *)

\* the indices of the rectangles left when those at most 1 px wide, and those
\* of the height limit or higher (inclusive) or above it (not inclusive), are
\* discarded
Remaining(rects, inclusive) ==
    {i \in 1..Len(rects) :
        ~(\/ rects[i].width <= 1 * UnitsPerPixel
          \/ IF inclusive THEN rects[i].height >= 100 * UnitsPerPixel
             ELSE rects[i].height > 100 * UnitsPerPixel)}

\* the coordinates of the record are those of the first and the last of the
\* rectangles kept, converted to LONG, and the position level is Full
CornersOf(info, rects, kept) ==
    LET first == rects[CHOOSE i \in kept : \A j \in kept : i <= j]
        last == rects[CHOOSE i \in kept : \A j \in kept : i >= j]
    IN /\ info.startTop = Point(ToLong(first.x), ToLong(first.y))
       /\ info.startBottom = Point(ToLong(first.x), ToLong(first.y + first.height))
       /\ info.endTop = Point(ToLong(last.x + last.width), ToLong(last.y))
       /\ info.endBottom = Point(ToLong(last.x + last.width), ToLong(last.y + last.height))
       /\ info.posLevel = "Full"

\* what SetTextRangeCoordinates made of the array, given the rectangles kept
GeometryFrom(kept) ==
    IF probe.range.bounds /\ kept # {}
    THEN probe.coords.result /\ CornersOf(probe.coords.info, probe.range.rects, kept)
    ELSE ~probe.coords.result /\ probe.coords.info = NewSelectionInfo

\* C30 as stated: the rectangles discarded are exactly those with width <= 1 px
\* or height > 100 px; if one remains, startTop and startBottom are (x, y) and
\* (x, y+h) of the first that remains, endTop and endBottom are (x+w, y) and
\* (x+w, y+h) of the last that remains, and the position level is Full
C30_AsStated ==
    probe.done => GeometryFrom(Remaining(probe.range.rects, FALSE))

\* C30: the rectangles discarded are exactly those with width <= 1 px or
\* height >= 100 px; if one remains, startTop and startBottom are (x, y) and
\* (x, y+h) of the first that remains, endTop and endBottom are (x+w, y) and
\* (x+w, y+h) of the last that remains, each coordinate cut to a whole number,
\* and the position level is Full; if none remains the record is left as it was
C30_Geometry ==
    probe.done => GeometryFrom(Remaining(probe.range.rects, TRUE))

\* C30 witness: of two rectangles the first, 100.5 px high, was discarded and
\* the second, at 10.5 px and 1.5 px wide, supplied both the start and the end
\* corners
C30_Witness ==
    /\ probe.done /\ probe.coords.result
    /\ probe.range.rects = <<Bounds(20, 20, 10, 201), Bounds(21, 20, 3, 199)>>
    /\ probe.coords.info.startTop = Point(10, 10)
    /\ probe.coords.info.endBottom = Point(12, 109)
    /\ probe.coords.info.posLevel = "Full"

-----------------------------------------------------------------------------
(* The input stream: a session is started, the hooks observe mouse-downs,    *)
(* mouse-ups and key-downs and post them, and the JavaScript thread takes    *)
(* the records in order.  The user-notification state differs from check to  *)
(* check, a record is taken at once or after the cached check has expired,   *)
(* and a mouse-up with Shift held starts an extraction.                      *)

StreamEnv ==
    [DeliveryEnv EXCEPT !.points = {Point(0, 0)},
                        !.deltas = {100, SPS_CACHE_MS},
                        !.userStates = BOOLEAN,
                        !.keys = {Keys(FALSE, FALSE, FALSE), Keys(TRUE, FALSE, FALSE)},
                        !.uia = {UiaSelected}]

NextStream ==
    \/ ~running /\ Start(<<JsFunction>>, TRUE)
    \/ \E n \in ThreadIds : ThreadProc_SetHooks(n)
    \/ \E n \in ThreadIds, event \in {"WM_LBUTTONDOWN", "WM_LBUTTONUP"} :
          HookCallback(n, "mouse", event)
    \/ \E n \in ThreadIds : HookCallback(n, "keyboard", "WM_KEYDOWN")
    \/ Idle /\ ProcessMouseEvent(StreamEnv)
    \/ Idle /\ ProcessKeyboardEvent(StreamEnv)
    \/ Idle /\ SelectionCallback
    \/ Idle /\ GetCurrentSelection(StreamEnv)
    \/ \E c \in Contexts : CheckProcessing(c)
    \/ \E c \in Contexts : SetProcessing(c)
    \/ \E c \in Contexts : ApplyGlobalFilter(c)
    \/ \E c \in Contexts : GetTextViaUIAutomation(c, StreamEnv)
    \/ DeliveryReturn
    \/ EmitMouseEvent
    \/ CallerReturn

SpecStream == Init /\ [][NextStream]_vars

-----------------------------------------------------------------------------
(* Properties of the clipboard fallback *)

\* the call of GetTextViaClipboard in context c has returned false out of its
\* key check because one of Ctrl, C, X, V was held
AbstainedForKeys(c) == clip[c].returned /\ clip[c].exit \in {"held", "window"}

\* C31 as stated: a clipboard extraction started by a gesture abstains in its
\* key check only when one of Ctrl, C, X, V was held at every one of the
\* maxChecks polls of the window; with a key held at the first poll it goes on
\* polling, and proceeds to the snapshot once all the keys are released
C31_AsStated ==
    \A c \in Contexts : AbstainedForKeys(c) => clip[c].checkCount + 1 >= maxChecks

\* context c makes a pass of the key check in this step
KeyCheckPass(c) == pc[c] = "clip_poll" /\ (pc'[c] # pc[c] \/ clip'[c] # clip[c])

\* the key check of the extraction a gesture started has gone past the test of
\* the sequence number: it has read the keys, and has left for the snapshot or
\* has returned false because of them
ReadTheKeys ==
    \/ pc["delivery"] = "clip_snapshot"
    \/ clip["delivery"].returned /\ clip["delivery"].exit \in {"held", "window", "copying"}

HasSent(c, type) == \E i \in 1..Len(clip[c].sent) : clip[c].sent[i] = type

\* the program of the call in context c is on the delay-read list
DelayReadListed(c) ==
    sel[c].programName # <<>> /\
    IsInFilterList(sel[c].programName, ftl_include_clipboard_delay_read)

\* C33: within one call of GetTextViaClipboard each of the two shortcuts is
\* sent at most once, Ctrl+Insert before Ctrl+C; Ctrl+Insert only for a program
\* that is not on the delay-read list; Ctrl+C only when the program is on that
\* list or the wait after Ctrl+Insert ended without a change of the sequence
\* number; every shortcut after the snapshot was taken; and none once a change
\* of the sequence number has been observed, in the key check or in a wait
C33_ShortcutOrder ==
    /\ [](\A c \in Contexts :
            /\ clip[c].sent \in {<<>>, <<"CtrlInsert">>, <<"CtrlC">>, <<"CtrlInsert", "CtrlC">>}
            /\ HasSent(c, "CtrlInsert") => ~DelayReadListed(c)
            /\ HasSent(c, "CtrlC") => DelayReadListed(c) \/ clip[c].insertTimedOut
            /\ clip[c].sent # <<>> => clip[c].snapshot
            /\ clip[c].exit = "sequence" => clip[c].sent = <<>>
            /\ clip[c].exit = "clip_insert_poll" => ~HasSent(c, "CtrlC"))
    /\ [][\A c \in Contexts :
            pc[c] = "clip_read" => clip'[c].sent = clip[c].sent \/ clip'[c] = NewClip]_vars

\* C33 witness: an extraction started by a gesture has sent Ctrl+Insert, found
\* no change, sent Ctrl+C, and has returned the text the application copied
C33_Witness ==
    /\ clip["delivery"].sent = <<"CtrlInsert", "CtrlC">>
    /\ clip["delivery"].returned /\ clip["delivery"].exit = "clip_read"
    /\ ret["delivery"] /\ sel["delivery"].text = T_sel
    /\ ~DelayReadListed("delivery")

\* ShouldProcessViaClipboard has just returned true / false in context c
GateOpen(c) == pc[c] = "clip_enter"

GateClosed(c) ==
    /\ pc[c] = "gst_ret" /\ ~ret[c]
    /\ Len(invoked[c]) = 3 /\ invoked[c][3].strategy = "Accessible"

\* what is said to open the gate for a program that passed the clipboard filter
CursorHeuristic(programName) ==
    \/ mouse_up_cursor = "IDC_IBEAM"
    \/ mouse_up_cursor \in {"IDC_ARROW", "IDC_HAND"}
         /\ uia_control_type \in {"Group", "Document", "Text"}
    \/ IsInFilterList(programName, ftl_exclude_clipboard_cursor_detect)

\* C34 as stated: with the fallback enabled and a program that passes the
\* clipboard filter, ShouldProcessViaClipboard answers true for an extraction
\* started by getCurrentSelection, and for one started by a gesture exactly
\* when the cursor of the mouse-up is the I-beam, or it is the arrow or the
\* hand and the control type is Group, Document or Text, or the program is on
\* the exclude-cursor-detection list
C34_AsStated ==
    \A c \in Contexts :
       is_enabled_clipboard /\ ClipboardFilterStage(sel[c].programName) =>
          LET expected == is_triggered_by_user \/ CursorHeuristic(sel[c].programName)
          IN /\ GateOpen(c) => expected
             /\ GateClosed(c) => ~expected

\* in this step a strategy of the invocation in context c returned
StrategyEnds(c) ==
    /\ Len(invoked'[c]) = Len(invoked[c]) + 1
    /\ pc'[c] # "gst_thrown"

\* the strategy that returned in this step, with its result
Ended(c) == invoked'[c][Len(invoked'[c])]

\* C37 as stated: a strategy that returns false leaves the text of the record
\* empty and its four corner points zero, and a strategy after UI Automation
\* that returns true started from an empty text, so that the text under the
\* method it stamps is its own
C37_AsStated ==
    [][\A c \in Contexts :
         StrategyEnds(c) =>
           /\ ~Ended(c).result =>
                /\ sel'[c].text = <<>>
                /\ sel'[c].startTop = ZeroPoint /\ sel'[c].startBottom = ZeroPoint
                /\ sel'[c].endTop = ZeroPoint /\ sel'[c].endBottom = ZeroPoint
           /\ Ended(c).result /\ Ended(c).strategy # "UIA" => sel[c].text = <<>>]_vars

\* C38 as stated: no record allocated by a hook callback is left without an
\* owner that frees it: a record that the channel refused, because it is full
\* or released, is freed by the callback; and the records waiting in a channel
\* never exceed its capacity
C38_AsStated ==
    /\ lastPost.unfreed = {}
    /\ Len(mouseQueue) <= DEFAULT_MOUSE_EVENT_QUEUE_SIZE
    /\ Len(keyboardQueue) <= DEFAULT_KEYBOARD_EVENT_QUEUE_SIZE

\* in this step Stop or the destructor, or a hook thread on its way out,
\* releases the mouse channel and the keyboard channel
ReleasesInputChannels ==
    \/ jsPc = "td_release" /\ jsPc' # "td_release"
    \/ \E n \in ThreadIds : hookThreads[n].pc = "release" /\ hookThreads'[n].pc = "exited"

\* in this step Stop or the destructor releases the selection channel
ReleasesSelectionChannel == running /\ ~running'

\* C39 as stated: no channel is released a second time: a step that releases
\* the mouse and the keyboard channel finds neither of them released already,
\* and a step that releases the selection channel finds it not yet released
C39_AsStated ==
    [][/\ ReleasesInputChannels =>
            mouse_tsfn # "released" /\ keyboard_tsfn # "released"
       /\ ReleasesSelectionChannel => tsfn # "released"]_vars

-----------------------------------------------------------------------------
(* Properties of the two extraction contexts *)

\* the invocation of GetSelectedText in context c holds the re-entrancy guard
HoldsGuard(c) == entered[c] /\ pc[c] \in GuardedSteps

-----------------------------------------------------------------------------
(* Properties of the input stream *)

\* the latest mouse-down the hook observed before its input number n, 0 when
\* there was none
LatestDownBefore(n) ==
    LET s == {d \in lastPost.downs : d < n}
    IN IF s = {} THEN 0 ELSE CHOOSE d \in s : \A e \in s : e <= d

\* C36 as stated: a mouse-up is classified against the mouse-down that came
\* immediately before it in the input stream of the hook, whatever happened
\* to the record of that mouse-down
C36_AsStated == ClassifiedUp => lastEvt.down.seq = LatestDownBefore(lastEvt.seq)

\* the step takes a record out of the mouse channel or the keyboard channel
TakesRecord ==
    \/ Len(mouseQueue') < Len(mouseQueue)
    \/ Len(keyboardQueue') < Len(keyboardQueue)

\* the step is a call of getCurrentSelection
CallsGetCurrentSelection == nCalls' = nCalls + 1

\* C40: a step in which ShouldProcessGetSelection answers that processing is
\* not allowed, taken for a mouse record, a keyboard record or a call of
\* getCurrentSelection, delivers nothing to the consumer, queues no selection,
\* starts no extraction and leaves the gesture state and the recorded
\* clipboard sequence number as they were; getCurrentSelection returns null
C40_Discards ==
    [][(~sps_lastResult' /\ (TakesRecord \/ CallsGetCurrentSelection))
         => /\ delivered' = delivered
            /\ tsfnQueue' = tsfnQueue
            /\ IF Len(mouseQueue') < Len(mouseQueue)
               THEN ~lastEvt'.emitted /\ ~lastEvt'.processed /\ ~lastEvt'.extraction
               ELSE lastEvt' = lastEvt
            /\ pc' = pc /\ entered' = entered
            /\ UNCHANGED <<gestureVars, clipboard_sequence, mouse_up_cursor,
                           is_processing, is_triggered_by_user, clipboardVars>>
            /\ (CallsGetCurrentSelection => callerResult' = "null")]_vars

\* a mouse-down record was discarded and getCurrentSelection returned null
\* while the check disallowed processing
C40_Witness ==
    /\ ~sps_lastResult
    /\ lastEvt.event = "WM_LBUTTONDOWN" /\ lastEvt.seq > 0 /\ ~lastEvt.processed
    /\ nCalls = 1 /\ callerResult = "null"
    /\ lastPost.downs # {} /\ delivered = Received("none", 0)

=============================================================================
